---------------------------- MODULE Spec2Model ----------------------------
(***************************************************************************)
(* bitcrust: the transaction validator and store of bitcrust-lib           *)
(* (transaction.rs), the peer-to-peer wire decoder of net (parser.rs), the *)
(* inventory messages of net (getdata_message.rs, inv_message.rs) and the  *)
(* reader of block files (blk_file.rs), as state machines.                 *)
(*                                                                         *)
(* Numbers.  TLC integers are 32-bit signed, while the code computes with  *)
(* u32, u64 and usize.  A length or a u32 is therefore a "wide" number     *)
(* <<hi, lo>> with value hi * 65536 + lo and 0 <= lo < 65536.              *)
(*                                                                         *)
(* Byte strings.  A &[u8] is kept run-length encoded with maximal runs: a  *)
(* sequence of chunks <<b, hi, lo>>, a run of byte b that ends at offset   *)
(* <<hi, lo>> of the string (and starts where the chunk before it ends),   *)
(* no two neighbouring chunks with the same byte.  The encoding is         *)
(* canonical, so equality of encodings is equality of byte strings, and a  *)
(* slice of a million or of 2^32 bytes is a single chunk.                  *)
(***************************************************************************)
EXTENDS Integers, Sequences, FiniteSets, TLC

-----------------------------------------------------------------------------
(* Wide numbers                                                            *)

W(n) == <<n \div 65536, n % 65536>>

WAdd(a, b) == <<a[1] + b[1] + ((a[2] + b[2]) \div 65536), (a[2] + b[2]) % 65536>>

WLeq(a, b) == a[1] < b[1] \/ (a[1] = b[1] /\ a[2] <= b[2])

WLess(a, b) == a[1] < b[1] \/ (a[1] = b[1] /\ a[2] < b[2])

\* a - b, for b <= a
WSub(a, b) ==
    IF a[2] >= b[2] THEN <<a[1] - b[1], a[2] - b[2]>>
                    ELSE <<a[1] - b[1] - 1, a[2] + 65536 - b[2]>>

\* F(x), with x evaluated once: "let v = x in F(v)"
Bind(x, F(_)) == CHOOSE r \in {F(v) : v \in {x}} : TRUE

-----------------------------------------------------------------------------
(* Byte strings                                                            *)

End(s, j) == <<s[j][2], s[j][3]>>

Start(s, j) == IF j = 1 THEN <<0, 0>> ELSE End(s, j - 1)

BLen(s) == IF s = <<>> THEN <<0, 0>> ELSE End(s, Len(s))

\* n times the byte b
Fill(b, n) == IF n = <<0, 0>> THEN <<>> ELSE << <<b, n[1], n[2]>> >>

Cat(s, t) ==
    IF s = <<>> THEN t
    ELSE IF t = <<>> THEN s
    ELSE LET u == [j \in 1..Len(t) |->
                      LET e == WAdd(End(t, j), BLen(s)) IN <<t[j][1], e[1], e[2]>>]
         IN  IF s[Len(s)][1] = t[1][1] THEN SubSeq(s, 1, Len(s) - 1) \o u ELSE s \o u

\* the encoding of a literal byte sequence: one chunk per maximal run
FromBytes(bs) ==
    Bind({i \in 1..Len(bs) : i = 1 \/ bs[i] # bs[i - 1]}, LAMBDA starts :
    Bind([i \in 1..Len(bs) |-> Cardinality({j \in starts : j <= i})], LAMBDA rank :
        [k \in 1..Cardinality(starts) |->
            <<bs[CHOOSE i \in starts : rank[i] = k], 0,
              IF k = Cardinality(starts) THEN Len(bs)
              ELSE (CHOOSE i \in starts : rank[i] = k + 1) - 1>>] \o <<>>))

\* the first n bytes of s (all of s when it is shorter)
Take(s, n) ==
    LET k == Cardinality({j \in 1..Len(s) : WLess(Start(s, j), n)})
    IN  [j \in 1..k |-> IF WLeq(End(s, j), n) THEN s[j] ELSE <<s[j][1], n[1], n[2]>>] \o <<>>

\* s without its first n bytes
Drop(s, n) ==
    LET m == Cardinality({j \in 1..Len(s) : WLeq(End(s, j), n)})
    IN  [j \in 1..(Len(s) - m) |->
            LET e == WSub(End(s, j + m), n) IN <<s[j + m][1], e[1], e[2]>>] \o <<>>

\* the byte at offset i (from 0)
ByteAt(s, i) ==
    s[CHOOSE j \in 1..Len(s) : WLeq(Start(s, j), i) /\ WLess(i, End(s, j))][1]

\* the bytes of a short slice, one by one
Expand(s) == [i \in 1..BLen(s)[2] |-> ByteAt(s, W(i - 1))] \o <<>>

\* s[from .. from + n), for small offsets
Slice(s, from, n) == Expand(Take(Drop(s, W(from)), W(n)))

-----------------------------------------------------------------------------
(* Hashing.  SHA-256 is not computed: Sha256 stands for it as a fixed     *)
(* function of the bytes and of their positions (the sum of all bytes, the *)
(* sum of the bytes at odd offsets, the length), spread over 32 bytes.     *)

\* chunk j's part of the two sums, modulo 256
ShaTerm(s, j) ==
    LET b    == s[j][1]
        km   == (End(s, j)[2] - Start(s, j)[2] + 65536) % 512
        nOdd == IF Start(s, j)[2] % 2 = 1 THEN (km + 1) \div 2 ELSE km \div 2
    IN  <<(b * (km % 256)) % 256, (b * (nOdd % 256)) % 256>>

RECURSIVE ShaSum(_, _, _)
ShaSum(s, lo, hi) ==
    IF lo > hi THEN <<0, 0>>
    ELSE IF lo = hi THEN ShaTerm(s, lo)
    ELSE Bind(ShaSum(s, lo, (lo + hi) \div 2), LAMBDA l :
         Bind(ShaSum(s, (lo + hi) \div 2 + 1, hi), LAMBDA r :
             <<(l[1] + r[1]) % 256, (l[2] + r[2]) % 256>>))

Sha256(s) ==
    Bind(ShaSum(s, 1, Len(s)), LAMBDA f :
        <<f[1], f[2], BLen(s)[2] % 256, BLen(s)[2] \div 256>>
            \o [i \in 1..28 |-> (7 * i) % 256])

double_sha256(s) == Bind(FromBytes(Sha256(s)), Sha256)

-----------------------------------------------------------------------------
(* buffer: the cursor primitives of bitcrust-lib (spec sections 3, 4.1).   *)
(* A Buffer is the slice that remains after the cursor; every reader       *)
(* returns Ok(value) with the advanced buffer, or EndOfBufferError.        *)

EndOfBufferError == [ok |-> FALSE]

Ok(v, rest) == [ok |-> TRUE, val |-> v, rest |-> rest]

\* little-endian bytes to a wide number (at most 4 bytes)
LE16(bs, i) == bs[i] + 256 * bs[i + 1]

LE32(bs) == <<LE16(bs, 3), LE16(bs, 1)>>

\* the four little-endian bytes of a u32
U32Bytes(w) == <<w[2] % 256, w[2] \div 256, w[1] % 256, w[1] \div 256>>

\* the two's-complement value of a u32 bit pattern
I32(w) == IF w[1] >= 32768 THEN (w[1] - 65536) * 65536 + w[2] ELSE w[1] * 65536 + w[2]

\* a u64, as a wide number; values of 2^47 and more saturate: they exceed
\* every length of the model and are only ever compared with lengths
LE64(bs) ==
    IF bs[7] # 0 \/ bs[8] # 0 \/ bs[6] >= 128
    THEN <<2147483647, 65535>>
    ELSE <<LE16(bs, 3) + 65536 * LE16(bs, 5), LE16(bs, 1)>>

\* try!(x) and then F of its value
Try(x, F(_)) == Bind(x, LAMBDA r : IF r.ok THEN F(r) ELSE r)

parse_bytes(buffer, n) ==
    IF WLess(BLen(buffer), n) THEN EndOfBufferError
    ELSE Ok(Take(buffer, n), Drop(buffer, n))

parse_u32(buffer) ==
    Try(parse_bytes(buffer, W(4)), LAMBDA r : Ok(LE32(Expand(r.val)), r.rest))

parse_i32(buffer) ==
    Try(parse_u32(buffer), LAMBDA r : Ok(I32(r.val), r.rest))

\* an i64 is kept as its eight little-endian bytes
parse_i64(buffer) ==
    Try(parse_bytes(buffer, W(8)), LAMBDA r : Ok(Expand(r.val), r.rest))

parse_hash32(buffer) ==
    Try(parse_bytes(buffer, W(32)), LAMBDA r : Ok(Expand(r.val), r.rest))

parse_compact_size(buffer) ==
    Try(parse_bytes(buffer, W(1)), LAMBDA t :
    Bind(ByteAt(t.val, <<0, 0>>), LAMBDA b :
        IF b < 253 THEN Ok(W(b), t.rest)
        ELSE IF b = 253
        THEN Try(parse_bytes(t.rest, W(2)), LAMBDA r :
                 Bind(Expand(r.val), LAMBDA bs : Ok(W(LE16(bs, 1)), r.rest)))
        ELSE IF b = 254
        THEN Try(parse_bytes(t.rest, W(4)), LAMBDA r :
                 Bind(Expand(r.val), LAMBDA bs : Ok(LE32(bs), r.rest)))
        ELSE Try(parse_bytes(t.rest, W(8)), LAMBDA r :
                 Bind(Expand(r.val), LAMBDA bs : Ok(LE64(bs), r.rest)))))

parse_compact_size_bytes(buffer) ==
    Try(parse_compact_size(buffer), LAMBDA n : parse_bytes(n.rest, n.val))

consumed_since(buffer, org_buffer) ==
    Take(org_buffer, WSub(BLen(org_buffer), BLen(buffer)))

-----------------------------------------------------------------------------
(* transaction.rs: parsing                                                 *)

TxInput_parse(buffer) ==
    Try(parse_hash32(buffer), LAMBDA h :
    Try(parse_u32(h.rest), LAMBDA i :
    Try(parse_compact_size_bytes(i.rest), LAMBDA s :
    Try(parse_u32(s.rest), LAMBDA q :
        Ok([prev_tx_out |-> h.val, prev_tx_out_idx |-> i.val,
            script |-> s.val, sequence |-> q.val], q.rest)))))

TxOutput_parse(buffer) ==
    Try(parse_i64(buffer), LAMBDA v :
    Try(parse_compact_size_bytes(v.rest), LAMBDA s :
        Ok([value |-> v.val, pk_script |-> s.val], s.rest)))

ItemParse(kind, buffer) ==
    IF kind = "TxInput" THEN TxInput_parse(buffer) ELSE TxOutput_parse(buffer)

\* Vec<T>::parse: a compact-size count, then that many items
RECURSIVE VecItems(_, _, _, _)
VecItems(kind, buffer, n, acc) ==
    IF n = <<0, 0>> THEN Ok(acc, buffer)
    ELSE Try(ItemParse(kind, buffer), LAMBDA r :
             Bind(Append(acc, r.val), LAMBDA acc2 :
                 VecItems(kind, r.rest, WSub(n, <<0, 1>>), acc2)))

Vec_parse(kind, buffer) ==
    Try(parse_compact_size(buffer), LAMBDA n : VecItems(kind, n.rest, n.val, <<>>))

\* Transaction::parse keeping the whole buffer as the raw bytes
Transaction_parse_whole_buffer(buffer) ==
    Try(parse_i32(buffer), LAMBDA v :
    Try(Vec_parse("TxInput", v.rest), LAMBDA i :
    Try(Vec_parse("TxOutput", i.rest), LAMBDA o :
    Try(parse_u32(o.rest), LAMBDA l :
        Ok([version |-> v.val, txs_in |-> i.val, txs_out |-> o.val,
            lock_time |-> l.val, raw |-> buffer],
           l.rest)))))

Transaction_parse(buffer) ==
    Try(parse_i32(buffer), LAMBDA v :
    Try(Vec_parse("TxInput", v.rest), LAMBDA i :
    Try(Vec_parse("TxOutput", i.rest), LAMBDA o :
    Try(parse_u32(o.rest), LAMBDA l :
        Ok([version |-> v.val, txs_in |-> i.val, txs_out |-> o.val,
            lock_time |-> l.val, raw |-> consumed_since(l.rest, buffer)],
           l.rest)))))

to_raw(tx) == tx.raw

-----------------------------------------------------------------------------
(* transaction.rs: validation                                              *)

MAX_TRANSACTION_SIZE == 1000000

\* the pairs of neighbours only
combinations2_neighbours(n) == {p \in (1..n) \X (1..n) : p[2] = p[1] + 1}

\* the 2-combinations of 1..n, as itertools' combinations(2) yields them
combinations2(n) == {p \in (1..n) \X (1..n) : p[1] < p[2]}

\* verify_syntax without the size check
verify_syntax_without_size(tx) ==
    IF tx.txs_in = <<>> THEN "NoInputs"
    ELSE IF tx.txs_out = <<>> THEN "NoOutputs"
    ELSE IF \E pair \in combinations2(Len(tx.txs_in)) :
                /\ tx.txs_in[pair[1]].prev_tx_out_idx = tx.txs_in[pair[2]].prev_tx_out_idx
                /\ tx.txs_in[pair[1]].prev_tx_out     = tx.txs_in[pair[2]].prev_tx_out
         THEN "DuplicateInputs"
    ELSE "Ok"

\* verify_syntax that looks at the outputs before the inputs
verify_syntax_outputs_first(tx) ==
    IF WLess(W(MAX_TRANSACTION_SIZE), BLen(tx.raw)) THEN "TransactionTooLarge"
    ELSE IF tx.txs_out = <<>> THEN "NoOutputs"
    ELSE IF tx.txs_in = <<>> THEN "NoInputs"
    ELSE IF \E pair \in combinations2(Len(tx.txs_in)) :
                /\ tx.txs_in[pair[1]].prev_tx_out_idx = tx.txs_in[pair[2]].prev_tx_out_idx
                /\ tx.txs_in[pair[1]].prev_tx_out     = tx.txs_in[pair[2]].prev_tx_out
         THEN "DuplicateInputs"
    ELSE "Ok"

verify_syntax(tx) ==
    IF WLess(W(MAX_TRANSACTION_SIZE), BLen(tx.raw)) THEN "TransactionTooLarge"
    ELSE IF tx.txs_in = <<>> THEN "NoInputs"
    ELSE IF tx.txs_out = <<>> THEN "NoOutputs"
    ELSE IF \E pair \in combinations2(Len(tx.txs_in)) :
                /\ tx.txs_in[pair[1]].prev_tx_out_idx = tx.txs_in[pair[2]].prev_tx_out_idx
                /\ tx.txs_in[pair[1]].prev_tx_out     = tx.txs_in[pair[2]].prev_tx_out
         THEN "DuplicateInputs"
    ELSE "Ok"

is_null(hash) == \A i \in 1..Len(hash) : hash[i] = 0

\* is_coinbase without the count of the inputs
is_coinbase_first_null(tx) == tx.txs_in # <<>> /\ is_null(tx.txs_in[1].prev_tx_out)

is_coinbase(tx) == Len(tx.txs_in) = 1 /\ is_null(tx.txs_in[1].prev_tx_out)

hash_buf(tx) == double_sha256(to_raw(tx))

-----------------------------------------------------------------------------
(* store: the index and the block content (spec section 3).  A pointer is  *)
(* the position of the written bytes in the content.                       *)

index_get(idx, key) == IF key \in DOMAIN idx THEN <<idx[key]>> ELSE <<>>

index_set(idx, key, ptr) == [k \in DOMAIN idx \cup {key} |-> IF k = key THEN ptr ELSE idx[k]]

\* a write that reuses the place of the bytes written last
content_write_over_last(content, bytes) ==
    IF content = <<>> THEN [ptr |-> 1, content |-> <<bytes>>]
    ELSE [ptr |-> Len(content), content |-> [content EXCEPT ![Len(content)] = bytes]]

content_write(content, bytes) == [ptr |-> Len(content) + 1, content |-> Append(content, bytes)]

content_read(content, ptr) == content[ptr]

-----------------------------------------------------------------------------
(* verify_input_scripts: the loop over the inputs.  codes[i] is what the   *)
(* external script verifier answers for input i, should it be asked.  The  *)
(* result carries the trace of the store lookups and verifier calls made.  *)

\* a result of the validator: Ok or the error's name, the code of a
\* ScriptError, and the trace
Res(result, code, trace) == [result |-> result, code |-> code, trace |-> trace]

RECURSIVE input_loop(_, _, _, _, _, _)
input_loop(tx, idx, content, codes, i, trace) ==
    IF i > Len(tx.txs_in) THEN Res("Ok", 0, trace)
    ELSE
    Bind(index_get(idx, tx.txs_in[i].prev_tx_out), LAMBDA output_r :
    Bind(Append(trace, <<"get", i>>), LAMBDA t1 :
        IF output_r = <<>>
        THEN Res("OutputTransactionNotFound", 0, t1)
        ELSE
        Bind(Transaction_parse(content_read(content, output_r[1])), LAMBDA previous_tx :
            IF ~previous_tx.ok
            THEN Res("UnexpectedEndOfData", 0, t1)
            ELSE IF ~WLess(tx.txs_in[i].prev_tx_out_idx, W(Len(previous_tx.val.txs_out)))
            THEN Res("OutputIndexNotFound", 0, t1)
            ELSE
            Bind(Append(t1, <<"verify", i, to_raw(tx),
                              previous_tx.val.txs_out[tx.txs_in[i].prev_tx_out_idx[2] + 1].pk_script,
                              0>>), LAMBDA t2 :
                IF codes[i] # 1
                THEN Res("ScriptError", codes[i], t2)
                ELSE input_loop(tx, idx, content, codes, i + 1, t2)))))

\* verify_input_scripts that accepts every input unseen
verify_input_scripts_accepts(tx, idx, content, codes) == Res("Ok", 0, <<>>)

\* verify_input_scripts that leaves the first input out
verify_input_scripts_from_second(tx, idx, content, codes) ==
    input_loop(tx, idx, content, codes, 2, <<>>)

verify_input_scripts(tx, idx, content, codes) ==
    input_loop(tx, idx, content, codes, 1, <<>>)

-----------------------------------------------------------------------------
(* parser.rs: the wire decoder.  The parsers are nom's: each returns Done   *)
(* with the remaining input and a value, Incomplete or Error.  The byte     *)
(* count of an Incomplete is not kept.  A String is the sequence of its     *)
(* chars' code points.                                                      *)

Done(rest, val) == [kind |-> "Done", rest |-> rest, val |-> val, err |-> "", code |-> <<0, 0>>]
Incomplete == [kind |-> "Incomplete", rest |-> <<>>, val |-> <<>>, err |-> "", code |-> <<0, 0>>]
Error(err, code) == [kind |-> "Error", rest |-> <<>>, val |-> <<>>, err |-> err, code |-> code]
\* the thread panics: an assertion fails or an overflow check trips
Panic == [kind |-> "Panic", rest |-> <<>>, val |-> <<>>, err |-> "", code |-> <<0, 0>>]

\* one step of do_parse!: the parser's result r, and what follows it
DoParse(r, F(_)) == Bind(r, LAMBDA v : IF v.kind = "Done" THEN F(v) ELSE v)

take(i, n) == IF WLess(BLen(i), n) THEN Incomplete ELSE Done(Drop(i, n), Take(i, n))

le_u16(i) == DoParse(take(i, W(2)), LAMBDA r : Done(r.rest, LE16(Expand(r.val), 1)))

be_u16(i) == DoParse(take(i, W(2)), LAMBDA r :
                 Bind(Expand(r.val), LAMBDA bs : Done(r.rest, 256 * bs[1] + bs[2])))

le_u32(i) == DoParse(take(i, W(4)), LAMBDA r : Done(r.rest, LE32(Expand(r.val))))

le_i32(i) == DoParse(le_u32(i), LAMBDA r : Done(r.rest, I32(r.val)))

\* a u64 and an i64 are kept as their eight little-endian bytes
le_u64(i) == DoParse(take(i, W(8)), LAMBDA r : Done(r.rest, Expand(r.val)))

le_i64(i) == le_u64(i)

\* tag!(<<b>>), a tag of one byte
tag1(i, b) ==
    IF i = <<>> THEN Incomplete
    ELSE IF ByteAt(i, <<0, 0>>) # b THEN Error("Tag", <<0, 0>>)
    ELSE Done(Drop(i, W(1)), <<b>>)

\* std::str::from_utf8 on bytes bs from position k on: the chars' code
\* points, or "invalid" (the well-formed byte sequences of UTF-8)
Cont(bs, k, lo, hi) == k <= Len(bs) /\ bs[k] >= lo /\ bs[k] <= hi

RECURSIVE from_utf8(_, _, _)
from_utf8(bs, k, acc) ==
    IF k > Len(bs) THEN [ok |-> TRUE, chars |-> acc]
    ELSE IF bs[k] < 128 THEN from_utf8(bs, k + 1, Append(acc, bs[k]))
    ELSE IF bs[k] >= 194 /\ bs[k] <= 223 /\ Cont(bs, k + 1, 128, 191)
    THEN from_utf8(bs, k + 2, Append(acc, (bs[k] - 192) * 64 + (bs[k + 1] - 128)))
    ELSE IF /\ bs[k] >= 224 /\ bs[k] <= 239
            /\ Cont(bs, k + 1, IF bs[k] = 224 THEN 160 ELSE 128, IF bs[k] = 237 THEN 159 ELSE 191)
            /\ Cont(bs, k + 2, 128, 191)
    THEN from_utf8(bs, k + 3, Append(acc, (bs[k] - 224) * 4096 + (bs[k + 1] - 128) * 64
                                          + (bs[k + 2] - 128)))
    ELSE IF /\ bs[k] >= 240 /\ bs[k] <= 244
            /\ Cont(bs, k + 1, IF bs[k] = 240 THEN 144 ELSE 128, IF bs[k] = 244 THEN 143 ELSE 191)
            /\ Cont(bs, k + 2, 128, 191)
            /\ Cont(bs, k + 3, 128, 191)
    THEN from_utf8(bs, k + 4, Append(acc, (bs[k] - 240) * 262144 + (bs[k + 1] - 128) * 4096
                                          + (bs[k + 2] - 128) * 64 + (bs[k + 3] - 128)))
    ELSE [ok |-> FALSE, chars |-> <<>>]

\* take_str!(n): map_res!(take!(n), str::from_utf8)
take_str(i, n) ==
    DoParse(take(i, W(n)), LAMBDA r :
        Bind(from_utf8(Expand(r.val), 1, <<>>), LAMBDA str :
            IF str.ok THEN Done(r.rest, str.chars) ELSE Error("MapRes", <<0, 0>>)))

\* str::trim_matches(c): without the chars c at its start and at its end
trim_matches(str, c) ==
    Bind({k \in 1..Len(str) : str[k] # c}, LAMBDA keep :
        IF keep = {} THEN <<>>
        ELSE SubSeq(str, CHOOSE k \in keep : \A m \in keep : k <= m,
                         CHOOSE k \in keep : \A m \in keep : k >= m))

MagicMain == <<249, 190, 180, 217>>
MagicTest == <<250, 191, 181, 218>>

\* the window of 4 bytes that starts with the last byte of chunk j: the
\* windows elsewhere hold two equal neighbours and match neither magic
window(data, j) ==
    IF /\ j + 3 <= Len(data)
       /\ End(data, j + 1) = WAdd(End(data, j), W(1))
       /\ End(data, j + 2) = WAdd(End(data, j), W(2))
    THEN <<data[j][1], data[j + 1][1], data[j + 2][1], data[j + 3][1]>>
    ELSE <<>>

slice2tuple(s) == IF Len(s) >= 4 THEN <<s[1], s[2], s[3], s[4]>> ELSE <<"assert">>

\* search_header looking only at the first 4 bytes
search_header_at_start(data) ==
    IF /\ data # <<>>
       /\ End(data, 1) = W(1)
       /\ window(data, 1) # <<>>
       /\ slice2tuple(window(data, 1)) \in {MagicMain, MagicTest}
    THEN << [i |-> W(4),
             network |-> IF slice2tuple(window(data, 1)) = MagicMain THEN "Main" ELSE "Test"] >>
    ELSE <<>>

\* Some((i + 4, network)) for the first window that is a magic, or None
search_header(data) ==
    Bind({j \in 1..(Len(data) - 3) :
             window(data, j) # <<>> /\ slice2tuple(window(data, j)) \in {MagicMain, MagicTest}},
         LAMBDA hits :
             IF hits = {} THEN <<>>
             ELSE Bind(CHOOSE j \in hits : \A k \in hits : j <= k, LAMBDA j :
                      << [i |-> WAdd(End(data, j), W(3)),
                          network |-> IF slice2tuple(window(data, j)) = MagicMain
                                      THEN "Main" ELSE "Test"] >>))

magic(input) ==
    Bind(search_header(input), LAMBDA found :
        IF found # <<>> THEN Done(Drop(input, found[1].i), found[1].network)
        ELSE Incomplete)

header(i) ==
    DoParse(magic(i), LAMBDA m :
    DoParse(take_str(m.rest, 12), LAMBDA message_type :
    DoParse(le_u32(message_type.rest), LAMBDA payload_len :
    DoParse(take(payload_len.rest, W(4)), LAMBDA checksum :
        Done(checksum.rest,
             [network |-> m.val,
              message_type |-> trim_matches(message_type.val, 0),
              len |-> payload_len.val,
              checksum |-> Expand(checksum.val)])))))

raw_message(i) ==
    DoParse(header(i), LAMBDA h :
    DoParse(take(h.rest, h.val.len), LAMBDA body :
        Done(body.rest,
             [network |-> h.val.network, message_type |-> h.val.message_type,
              len |-> h.val.len, checksum |-> h.val.checksum, body |-> body.val])))

\* RawMessage::valid
valid(raw) == SubSeq(double_sha256(raw.body), 1, 4) = raw.checksum

-----------------------------------------------------------------------------
(* parser.rs: the decoders of the payloads                                 *)

\* alt!: the next alternative is tried after an Error only
Alt(r, other) == Bind(r, LAMBDA v : IF v.kind = "Error" THEN other ELSE v)

i1(i) == DoParse(take(i, W(1)), LAMBDA b : Done(b.rest, W(ByteAt(b.val, <<0, 0>>))))

i3(i) ==
    DoParse(tag1(i, 253), LAMBDA t :
    DoParse(le_u16(t.rest), LAMBDA len : Done(len.rest, W(len.val))))

i5(i) ==
    DoParse(tag1(i, 254), LAMBDA t :
    DoParse(le_u32(t.rest), LAMBDA len : Done(len.rest, len.val)))

i9(i) ==
    DoParse(tag1(i, 255), LAMBDA t :
    DoParse(le_u64(t.rest), LAMBDA len : Done(len.rest, LE64(len.val))))

compact_size(i) == Alt(i9(i), Alt(i5(i), Alt(i3(i), i1(i))))

\* String::from_utf8_lossy, for ill-formed sequences of one byte: each
\* becomes U+FFFD
RECURSIVE from_utf8_lossy(_, _, _)
from_utf8_lossy(bs, k, acc) ==
    IF k > Len(bs) THEN acc
    ELSE IF bs[k] < 128 THEN from_utf8_lossy(bs, k + 1, Append(acc, bs[k]))
    ELSE from_utf8_lossy(bs, k + 1, Append(acc, 65533))

variable_str(i) ==
    DoParse(compact_size(i), LAMBDA len :
    DoParse(take(len.rest, len.val), LAMBDA data :
        Done(data.rest, from_utf8_lossy(Expand(data.val), 1, <<>>))))

ipv6(i) ==
    DoParse(be_u16(i), LAMBDA a :
    DoParse(be_u16(a.rest), LAMBDA b :
    DoParse(be_u16(b.rest), LAMBDA c :
    DoParse(be_u16(c.rest), LAMBDA d :
    DoParse(be_u16(d.rest), LAMBDA e :
    DoParse(be_u16(e.rest), LAMBDA f :
    DoParse(be_u16(f.rest), LAMBDA g :
    DoParse(be_u16(g.rest), LAMBDA h :
        Done(h.rest, <<a.val, b.val, c.val, d.val, e.val, f.val, g.val, h.val>>)))))))))

version_net_addr(i) ==
    DoParse(le_u64(i), LAMBDA services :
    DoParse(ipv6(services.rest), LAMBDA ip :
    DoParse(be_u16(ip.rest), LAMBDA port :
        Done(port.rest, [time |-> <<>>, services |-> services.val, ip |-> ip.val,
                         port |-> port.val]))))

net_addr(i) ==
    DoParse(le_u32(i), LAMBDA time :
    DoParse(le_u64(time.rest), LAMBDA services :
    DoParse(ipv6(services.rest), LAMBDA ip :
    DoParse(be_u16(ip.rest), LAMBDA port :
        Done(port.rest, [time |-> <<time.val>>, services |-> services.val, ip |-> ip.val,
                         port |-> port.val])))))

inv_vector(i) ==
    DoParse(le_u32(i), LAMBDA flags :
    DoParse(take(flags.rest, W(32)), LAMBDA hash :
        Done(hash.rest, [flags |-> flags.val, hash |-> Expand(hash.val)])))

block_header(i) ==
    DoParse(le_i32(i), LAMBDA version :
    DoParse(take(version.rest, W(32)), LAMBDA prev_block :
    DoParse(take(prev_block.rest, W(32)), LAMBDA merkle_root :
    DoParse(le_u32(merkle_root.rest), LAMBDA timestamp :
    DoParse(le_u32(timestamp.rest), LAMBDA bits :
    DoParse(le_u32(bits.rest), LAMBDA nonce :
    DoParse(compact_size(nonce.rest), LAMBDA txn_count :
        Done(txn_count.rest,
             [version |-> version.val, prev_block |-> Expand(prev_block.val),
              merkle_root |-> Expand(merkle_root.val), timestamp |-> timestamp.val,
              bits |-> bits.val, nonce |-> nonce.val, txn_count |-> txn_count.val]))))))))

take32(i) == DoParse(take(i, W(32)), LAMBDA h : Done(h.rest, Expand(h.val)))

\* the parser count! repeats
count_item(item, i) ==
    IF item = "inv_vector" THEN inv_vector(i)
    ELSE IF item = "block_header" THEN block_header(i)
    ELSE IF item = "net_addr" THEN net_addr(i)
    ELSE take32(i)

\* count!(item, n): an Incomplete of the item is an Incomplete, an Error of
\* the item is the Error Count
RECURSIVE count(_, _, _, _)
count(item, i, n, res) ==
    IF n = <<0, 0>> THEN Done(i, res)
    ELSE Bind(count_item(item, i), LAMBDA r :
             IF r.kind = "Done"
             THEN Bind(Append(res, r.val), LAMBDA res2 :
                      count(item, r.rest, WSub(n, <<0, 1>>), res2))
             ELSE IF r.kind = "Incomplete" THEN Incomplete
             ELSE Error("Count", <<0, 0>>))

bitcrust_peer_count_request(i) ==
    DoParse(take(i, W(8)), LAMBDA nonce :
    DoParse(take(nonce.rest, W(32)), LAMBDA signature :
        Done(signature.rest, [type |-> "BitcrustPeerCountRequest",
                              signature |-> Expand(signature.val),
                              nonce |-> Expand(nonce.val)])))

bitcrust_peer_count(i) ==
    DoParse(le_u64(i), LAMBDA c : Done(c.rest, [type |-> "BitcrustPeerCount", count |-> c.val]))

feefilter(i) ==
    DoParse(le_u64(i), LAMBDA f : Done(f.rest, [type |-> "FeeFilter", feefilter |-> f.val]))

ping(i) == DoParse(le_u64(i), LAMBDA nonce : Done(nonce.rest, [type |-> "Ping", nonce |-> nonce.val]))

pong(i) == DoParse(le_u64(i), LAMBDA nonce : Done(nonce.rest, [type |-> "Pong", nonce |-> nonce.val]))

send_compact(i) ==
    DoParse(take(i, W(1)), LAMBDA s :
    DoParse(le_u64(s.rest), LAMBDA version :
        Done(version.rest, [type |-> "SendCompact", send_compact |-> Expand(s.val) = <<1>>,
                            version |-> version.val])))

inv(i) ==
    DoParse(compact_size(i), LAMBDA c :
    DoParse(count("inv_vector", c.rest, c.val, <<>>), LAMBDA inventory :
        Done(inventory.rest, [type |-> "Inv", inventory |-> inventory.val])))

getdata(i) ==
    DoParse(compact_size(i), LAMBDA c :
    DoParse(count("inv_vector", c.rest, c.val, <<>>), LAMBDA inventory :
        Done(inventory.rest, [type |-> "GetData", inventory |-> inventory.val])))

headers(i) ==
    DoParse(compact_size(i), LAMBDA c :
    DoParse(count("block_header", c.rest, c.val, <<>>), LAMBDA hs :
        Done(hs.rest, [type |-> "Header", count |-> c.val, headers |-> hs.val])))

getheaders(i) ==
    DoParse(le_u32(i), LAMBDA version :
    DoParse(compact_size(version.rest), LAMBDA c :
    DoParse(count("take32", c.rest, c.val, <<>>), LAMBDA hashes :
    DoParse(take(hashes.rest, W(32)), LAMBDA hash_stop :
        Done(hash_stop.rest, [type |-> "GetHeaders", version |-> version.val,
                              locator_hashes |-> hashes.val,
                              hash_stop |-> Expand(hash_stop.val)])))))

getblocks(i) ==
    DoParse(le_u32(i), LAMBDA version :
    DoParse(compact_size(version.rest), LAMBDA c :
    DoParse(count("take32", c.rest, c.val, <<>>), LAMBDA hashes :
    DoParse(take(hashes.rest, W(32)), LAMBDA hash_stop :
        Done(hash_stop.rest, [type |-> "GetBlocks", version |-> version.val,
                              locator_hashes |-> hashes.val,
                              hash_stop |-> Expand(hash_stop.val)])))))

addr(i) ==
    DoParse(compact_size(i), LAMBDA c :
    DoParse(count("net_addr", c.rest, c.val, <<>>), LAMBDA list :
        Done(list.rest, [type |-> "Addr", addrs |-> list.val])))

\* cond!(c, take!(1))
\* cond! that takes the byte whatever the condition
cond_take1_always(c, i) ==
    DoParse(take(i, W(1)), LAMBDA r : Done(r.rest, <<Expand(r.val)>>))

cond_take1(c, i) ==
    IF c THEN DoParse(take(i, W(1)), LAMBDA r : Done(r.rest, <<Expand(r.val)>>))
    ELSE Done(i, <<>>)

version(i) ==
    DoParse(le_i32(i), LAMBDA v :
    DoParse(le_u64(v.rest), LAMBDA services :
    DoParse(le_i64(services.rest), LAMBDA timestamp :
    DoParse(version_net_addr(timestamp.rest), LAMBDA addr_recv :
    DoParse(version_net_addr(addr_recv.rest), LAMBDA addr_send :
    DoParse(le_u64(addr_send.rest), LAMBDA nonce :
    DoParse(variable_str(nonce.rest), LAMBDA user_agent :
    DoParse(le_i32(user_agent.rest), LAMBDA start :
    DoParse(cond_take1(v.val >= 70001, start.rest), LAMBDA relay :
        Done(relay.rest,
             [type |-> "Version", version |-> v.val, services |-> services.val,
              timestamp |-> timestamp.val, addr_recv |-> addr_recv.val,
              addr_send |-> addr_send.val, nonce |-> nonce.val,
              user_agent |-> user_agent.val, start_height |-> start.val,
              relay |-> relay.val # <<>> /\ relay.val[1] = <<1>>]))))))))))

-----------------------------------------------------------------------------
(* parser.rs: message                                                      *)

\* the names of the commands, as the code points of their chars
Str_version == <<118, 101, 114, 115, 105, 111, 110>>
Str_verack == <<118, 101, 114, 97, 99, 107>>
Str_sendheaders == <<115, 101, 110, 100, 104, 101, 97, 100, 101, 114, 115>>
Str_getdata == <<103, 101, 116, 100, 97, 116, 97>>
Str_getblocks == <<103, 101, 116, 98, 108, 111, 99, 107, 115>>
Str_getheaders == <<103, 101, 116, 104, 101, 97, 100, 101, 114, 115>>
Str_sendcmpct == <<115, 101, 110, 100, 99, 109, 112, 99, 116>>
Str_feefilter == <<102, 101, 101, 102, 105, 108, 116, 101, 114>>
Str_ping == <<112, 105, 110, 103>>
Str_pong == <<112, 111, 110, 103>>
Str_addr == <<97, 100, 100, 114>>
Str_headers == <<104, 101, 97, 100, 101, 114, 115>>
Str_inv == <<105, 110, 118>>
Str_bcr_pcr == <<98, 99, 114, 95, 112, 99, 114>>
Str_bcr_pc == <<98, 99, 114, 95, 112, 99>>

U32Max == <<65535, 65535>>

\* raw_message.len + 20 in u32: the sum when it fits; else the thread panics
\* where overflow is checked, and the sum wraps where it is not
checksum_error(len, overflow_checks) ==
    IF WLeq(WAdd(len, W(20)), U32Max) THEN Error("Custom", WAdd(len, W(20)))
    ELSE IF overflow_checks THEN Panic
    ELSE Error("Custom", WSub(WAdd(len, W(20)), <<65536, 0>>))

\* the match on the message type
dispatch(i, raw) ==
    IF raw.message_type = Str_version THEN version(raw.body)
    ELSE IF raw.message_type = Str_verack THEN Done(i, [type |-> "Verack"])
    ELSE IF raw.message_type = Str_sendheaders THEN Done(i, [type |-> "SendHeaders"])
    ELSE IF raw.message_type = Str_getdata THEN getdata(raw.body)
    ELSE IF raw.message_type = Str_getblocks THEN getblocks(raw.body)
    ELSE IF raw.message_type = Str_getheaders THEN getheaders(raw.body)
    ELSE IF raw.message_type = Str_sendcmpct THEN send_compact(raw.body)
    ELSE IF raw.message_type = Str_feefilter THEN feefilter(raw.body)
    ELSE IF raw.message_type = Str_ping THEN ping(raw.body)
    ELSE IF raw.message_type = Str_pong THEN pong(raw.body)
    ELSE IF raw.message_type = Str_addr THEN addr(raw.body)
    ELSE IF raw.message_type = Str_headers THEN headers(raw.body)
    ELSE IF raw.message_type = Str_inv THEN inv(raw.body)
    ELSE IF raw.message_type = Str_bcr_pcr THEN bitcrust_peer_count_request(raw.body)
    ELSE IF raw.message_type = Str_bcr_pc THEN bitcrust_peer_count(raw.body)
    ELSE Done(i, [type |-> "Unparsed", message_type |-> raw.message_type, body |-> raw.body])

message(i, overflow_checks) ==
    Bind(raw_message(i), LAMBDA r :
        IF r.kind = "Done"
        THEN IF ~valid(r.val) THEN checksum_error(r.val.len, overflow_checks)
             ELSE dispatch(r.rest, r.val)
        ELSE r)

-----------------------------------------------------------------------------
(* The byte streams offered to the decoder: a prefix, a frame, and what    *)
(* follows the frame.                                                      *)

Bytes(n, from) == [k \in 1..n |-> (from + 3 * k) % 256] \o <<>>

Zeros(n) == [k \in 1..n |-> 0] \o <<>>

Pad12(str) == str \o Zeros(12 - Len(str))

NetAddrBytes(from) == <<1, 0, 0, 0, 0, 0, 0, 0>> \o Bytes(16, from) \o <<32, 141>>

\* a version payload: the version number, a user agent with a byte that is
\* no UTF-8, and the relay byte when asked for
VersionBytes(v, relay) ==
    U32Bytes(W(v)) \o <<13, 0, 0, 0, 0, 0, 0, 0>> \o Bytes(8, 100) \o NetAddrBytes(10)
        \o NetAddrBytes(60) \o Bytes(8, 200) \o <<3, 47, 255, 98>> \o <<64, 226, 1, 0>> \o relay

\* a version payload with the four bytes of the wide number w as its version
VersionBytesW(w, relay) ==
    U32Bytes(w) \o <<13, 0, 0, 0, 0, 0, 0, 0>> \o Bytes(8, 100) \o NetAddrBytes(10)
        \o NetAddrBytes(60) \o Bytes(8, 200) \o <<3, 47, 255, 98>> \o <<64, 226, 1, 0>> \o relay

\* the command fields, each with a payload that suits it
Commands == <<
    [cmd |-> Pad12(Str_version),     payload |-> VersionBytes(70001, <<1>>)],
    [cmd |-> Pad12(Str_version),     payload |-> VersionBytes(70000, <<>>)],
    [cmd |-> Pad12(Str_verack),      payload |-> <<>>],
    [cmd |-> Pad12(Str_sendheaders), payload |-> <<>>],
    [cmd |-> Pad12(Str_getdata),     payload |-> <<2, 1, 0, 0, 0>> \o Bytes(32, 1)
                                                  \o <<2, 0, 0, 0>> \o Bytes(32, 2)],
    [cmd |-> Pad12(Str_getblocks),   payload |-> <<113, 17, 1, 0, 1>> \o Bytes(32, 3) \o Zeros(32)],
    [cmd |-> Pad12(Str_getheaders),  payload |-> <<113, 17, 1, 0, 1>> \o Bytes(32, 4) \o Zeros(32)],
    [cmd |-> Pad12(Str_sendcmpct),   payload |-> <<1, 1, 0, 0, 0, 0, 0, 0, 0>>],
    [cmd |-> Pad12(Str_feefilter),   payload |-> <<232, 3, 0, 0, 0, 0, 0, 0>>],
    [cmd |-> Pad12(Str_ping),        payload |-> Bytes(8, 5)],
    [cmd |-> Pad12(Str_pong),        payload |-> Bytes(8, 6)],
    [cmd |-> Pad12(Str_addr),        payload |-> <<1, 21, 205, 91, 7>> \o NetAddrBytes(7)],
    [cmd |-> Pad12(Str_headers),     payload |-> <<1, 2, 0, 0, 0>> \o Bytes(64, 8)
                                                  \o Bytes(12, 9) \o <<0>>],
    [cmd |-> Pad12(Str_inv),         payload |-> <<1, 2, 0, 0, 0>> \o Bytes(32, 11)],
    [cmd |-> Pad12(Str_bcr_pcr),     payload |-> Bytes(40, 12)],
    [cmd |-> Pad12(Str_bcr_pc),      payload |-> <<5, 0, 0, 0, 0, 0, 0, 0>>],
    \* "tx", "block": no names of the match
    [cmd |-> Pad12(<<116, 120>>),    payload |-> <<1, 2, 3>>],
    [cmd |-> Pad12(<<98, 108, 111, 99, 107>>), payload |-> Bytes(20, 13)],
    \* twelve chars, no NUL
    [cmd |-> <<97, 98, 99, 100, 101, 102, 103, 104, 105, 106, 107, 108>>, payload |-> <<1>>],
    \* all NUL
    [cmd |-> Zeros(12),              payload |-> <<4, 5>>],
    \* NUL before "ping", and NUL inside it
    [cmd |-> Pad12(<<0>> \o Str_ping), payload |-> Bytes(8, 5)],
    [cmd |-> Pad12(<<112, 105, 0, 110, 103>>), payload |-> Bytes(8, 5)],
    \* a char of two bytes, and a byte that starts no char
    [cmd |-> Pad12(<<195, 169>>),    payload |-> <<1, 2>>],
    [cmd |-> Pad12(<<116, 255>>),    payload |-> <<1, 2>>],
    \* version 70015 with the relay byte 00, and version -1
    [cmd |-> Pad12(Str_version),     payload |-> VersionBytes(70015, <<0>>)],
    [cmd |-> Pad12(Str_version),     payload |-> VersionBytesW(<<65535, 65535>>, <<>>)] >>

\* a payload that suits the command, the same with one byte more and with
\* one byte less, and an empty one
Payloads(c) ==
    {c.payload, c.payload \o <<7>>, <<>>}
        \cup (IF c.payload = <<>> THEN {} ELSE {SubSeq(c.payload, 1, Len(c.payload) - 1)})

\* a frame: the network, the twelve bytes of the command field, the payload
\* and whether the checksum is that of the payload
FramesOf(c, network) ==
    {[network |-> network, cmd |-> c.cmd, payload |-> FromBytes(p), good |-> g] :
        p \in Payloads(c), g \in BOOLEAN}

\* payloads of 2^32 - 21 and of 2^32 - 20 bytes
HugeFrames ==
    {[network |-> "Main", cmd |-> Pad12(c), payload |-> Fill(0, n), good |-> g] :
        c \in {Str_ping, <<116, 120>>}, n \in {<<65535, 65515>>, <<65535, 65516>>},
        g \in BOOLEAN}

SmallFrames ==
    UNION {FramesOf(Commands[k], IF k % 2 = 0 THEN "Main" ELSE "Test") : k \in 1..Len(Commands)}

Checksum(d) ==
    Bind(SubSeq(double_sha256(d.payload), 1, 4), LAMBDA c :
        IF d.good THEN c ELSE <<(c[1] + 1) % 256, c[2], c[3], c[4]>>)

Frame(d) ==
    Cat(FromBytes((IF d.network = "Main" THEN MagicMain ELSE MagicTest) \o d.cmd
                      \o U32Bytes(BLen(d.payload)) \o Checksum(d)),
        d.payload)

NextFrame == [network |-> "Main", cmd |-> Pad12(Str_verack), payload |-> <<>>, good |-> TRUE]

\* what follows the frame: nothing, a verack frame, two bytes; "cut" is the
\* frame without its last byte
Tails == {"none", "frame", "bytes", "cut"}

After(tail) ==
    IF tail = "frame" THEN Frame(NextFrame)
    ELSE IF tail = "bytes" THEN FromBytes(<<9, 10>>)
    ELSE <<>>

\* the bytes before the frame, and how many bytes the frame lacks at its
\* start
Prefixes == {[bytes |-> <<0, 0, 0>>, chop |-> 0],
             [bytes |-> <<249>>, chop |-> 0], [bytes |-> <<249>>, chop |-> 1],
             [bytes |-> <<250, 191, 181>>, chop |-> 0]}

\* the frames that are offered behind a prefix too: sendheaders, getdata,
\* ping and "block"
PrefixedFrames ==
    UNION {FramesOf(Commands[k], IF k % 2 = 0 THEN "Main" ELSE "Test") : k \in {4, 5, 10, 18}}

Streams ==
    {[prefix |-> <<>>, chop |-> 0, frame |-> f, tail |-> t] : f \in SmallFrames, t \in Tails}
    \cup {[prefix |-> p.bytes, chop |-> p.chop, frame |-> f, tail |-> t] :
             p \in Prefixes, f \in PrefixedFrames, t \in Tails}
    \cup {[prefix |-> <<>>, chop |-> 0, frame |-> f, tail |-> t] :
             f \in HugeFrames, t \in {"none", "frame"}}

\* the stream without its prefix, and the stream
Unprefixed(st) ==
    Bind(Frame(st.frame), LAMBDA fr :
        Drop(IF st.tail = "cut" THEN Take(fr, WSub(BLen(fr), W(1))) ELSE Cat(fr, After(st.tail)),
             W(st.chop)))

StreamBytes(st) == Cat(FromBytes(st.prefix), Unprefixed(st))

-----------------------------------------------------------------------------
(* The transactions offered to the store.  Each is written out in the     *)
(* wire format and then parsed by Transaction_parse, as a caller does.     *)

CompactSizeBytes(w) ==
    IF w[1] = 0 /\ w[2] < 253 THEN <<w[2]>>
    ELSE IF w[1] = 0 THEN <<253, w[2] % 256, w[2] \div 256>>
    ELSE <<254>> \o U32Bytes(w)

SerScript(script) == Cat(FromBytes(CompactSizeBytes(BLen(script))), script)

SerInput(in) ==
    Cat(FromBytes(in.hash \o U32Bytes(in.idx)),
        Cat(SerScript(in.script), FromBytes(U32Bytes(in.seq))))

SerOutput(out) == Cat(FromBytes(out.value), SerScript(out.pk))

RECURSIVE SerAll(_, _)
SerAll(items, isInput) ==
    IF items = <<>> THEN <<>>
    ELSE Cat(IF isInput THEN SerInput(items[1]) ELSE SerOutput(items[1]),
             SerAll(Tail(items), isInput))

Ser(ins, outs) ==
    Cat(FromBytes(<<1, 0, 0, 0>> \o CompactSizeBytes(W(Len(ins)))),
        Cat(SerAll(ins, TRUE),
            Cat(FromBytes(CompactSizeBytes(W(Len(outs)))),
                Cat(SerAll(outs, FALSE), FromBytes(<<0, 0, 0, 0>>)))))

NullHash == [i \in 1..32 |-> 0]
UnknownHash == [i \in 1..32 |-> 170]

In(hash, idx) == [hash |-> hash, idx |-> idx, script |-> FromBytes(<<71, 48>>),
                  seq |-> <<65535, 65535>>]
CoinbaseIn == [hash |-> NullHash, idx |-> <<65535, 65535>>, script |-> FromBytes(<<4, 255>>),
               seq |-> <<65535, 65535>>]
Out(v, pk) == [value |-> <<v, 0, 0, 0, 0, 0, 0, 0>>, pk |-> pk]

PkA == FromBytes(<<118, 169, 20>>)
PkB == FromBytes(<<81>>)

RawCB1 == Ser(<<CoinbaseIn>>, <<Out(50, PkA)>>)
RawCB2 == Ser(<<CoinbaseIn>>, <<Out(25, PkA), Out(25, PkB)>>)
HashCB1 == double_sha256(RawCB1)
HashCB2 == double_sha256(RawCB2)
\* spends the only output of CB1
RawT1  == Ser(<<In(HashCB1, <<0, 0>>)>>, <<Out(49, PkB)>>)
\* names an output index CB1 does not have
RawT2  == Ser(<<In(HashCB1, <<0, 1>>)>>, <<Out(40, PkB)>>)
\* names a transaction nobody stored
RawT3  == Ser(<<In(UnknownHash, <<0, 0>>)>>, <<Out(1, PkB)>>)
\* two inputs, from CB2 and from CB1
RawT4  == Ser(<<In(HashCB2, <<0, 1>>), In(HashCB1, <<0, 0>>)>>,
              <<Out(70, PkA)>>)
\* the same previous output twice
RawDup == Ser(<<In(UnknownHash, <<0, 0>>), In(UnknownHash, <<0, 0>>)>>, <<Out(1, PkB)>>)
RawNoInputs  == Ser(<<>>, <<Out(1, PkB)>>)
RawNoOutputs == Ser(<<In(UnknownHash, <<0, 0>>)>>, <<>>)
\* one byte more than MAX_TRANSACTION_SIZE, and exactly MAX_TRANSACTION_SIZE
RawTooLarge == Ser(<<CoinbaseIn>>, <<Out(50, Fill(106, W(MAX_TRANSACTION_SIZE - 65)))>>)
RawLargest  == Ser(<<CoinbaseIn>>, <<Out(50, Fill(106, W(MAX_TRANSACTION_SIZE - 66)))>>)
\* the same previous output twice, and no outputs
RawDupNoOutputs == Ser(<<In(UnknownHash, <<0, 0>>), In(UnknownHash, <<0, 0>>)>>, <<>>)
\* two inputs, the first with a null hash
RawNullFirst == Ser(<<In(NullHash, <<0, 0>>), In(HashCB1, <<0, 0>>)>>,
                    <<Out(1, PkB)>>)

\* two inputs: an output index CB1 does not have, and a transaction nobody
\* stored
RawT5 == Ser(<<In(HashCB1, <<0, 1>>), In(UnknownHash, <<0, 0>>)>>, <<Out(1, PkB)>>)

Raws == <<RawCB1, RawCB2, RawT1, RawT2, RawT3, RawT4, RawDup, RawNoInputs, RawNoOutputs,
          RawTooLarge, RawLargest, RawT5>>

Txs == [i \in 1..Len(Raws) |-> Transaction_parse(Raws[i]).val]

-----------------------------------------------------------------------------
(* The store and the threads that call verify_and_store on it.             *)

\* the store, the transactions the callers hold, and the calls
VARIABLES index, block_content, pool, owner, call, vs_by, calls

storeVars == <<index, block_content, pool, owner, call, vs_by, calls>>

\* the decoder's state: the stream offered, whether the build checks the
\* overflow of integers, the input of the next call of message, and the
\* results of the calls made
VARIABLES given, overflow_checked, input, outs, bare

wireVars == <<given, overflow_checked, input, outs, bare>>

\* the syntax check's state: the transaction offered, an ordering of its
\* inputs, and the results of verify_syntax
VARIABLES offered, order, checked

syntaxVars == <<offered, order, checked>>

\* the parser's state: the bytes a caller holds, the result of
\* Transaction::parse on them, and what the caller reads off the
\* transaction
VARIABLES tx_bytes, tx_parsed, tx_seen

parseVars == <<tx_bytes, tx_parsed, tx_seen>>

\* the block file's state: the file, whether its reader is at the end of
\* the file after a read that failed, the part of the file not yet read,
\* the results of the calls of read_block, and the result of one call on
\* the file without its padding
VARIABLES blk, exhausts, rdr, blocks, unpadded

blkVars == <<blk, exhausts, rdr, blocks, unpadded>>

\* an inventory message and what its accessors returned
VARIABLES inv_msg, accessed

accessorVars == <<inv_msg, accessed>>

vars == <<storeVars, wireVars, syntaxVars, parseVars, blkVars, accessorVars>>

NThreads == 2
MaxCalls == 3

Threads == 1..NThreads

\* what the external script verifier may answer
ScriptCodes == {0, 1}

Idle == [pc |-> "idle", tx |-> 0, contended |-> FALSE, result |-> "none", code |-> 0,
         trace |-> <<>>, answers |-> <<>>, hash_buf |-> <<>>, ptr |-> 0,
         entry_index |-> <<>>, entry_content |-> <<>>, entry_stored |-> FALSE]

\* the outcome of the checks: a result, and the hash once it is computed
Checked(res, hash) ==
    [result |-> res.result, code |-> res.code, trace |-> res.trace, hash_buf |-> hash]

\* the calls of the script verifier in a trace
VerifierCalls(trace) == SelectSeq(trace, LAMBDA e : e[1] = "verify")

\* what the script verifier answered to the calls of a trace, in their order
Answers(trace, codes) ==
    Bind(VerifierCalls(trace), LAMBDA made : [k \in 1..Len(made) |-> codes[made[k][2]]] \o <<>>)

\* verify_and_store_checks without the lookup of the transaction's own hash
verify_and_store_checks_without_lookup(tx, idx, content, codes) ==
    Bind(verify_syntax(tx), LAMBDA syntax :
        IF syntax # "Ok" THEN Checked(Res(syntax, 0, <<>>), <<>>)
        ELSE Bind(hash_buf(tx), LAMBDA hash :
            IF is_coinbase(tx) THEN Checked(Res("write", 0, <<>>), hash)
            ELSE Bind(verify_input_scripts(tx, idx, content, codes), LAMBDA inputs :
                     IF inputs.result # "Ok" THEN Checked(inputs, hash)
                     ELSE Checked(Res("write", 0, inputs.trace), hash))))

\* verify_and_store_checks without the verification of the inputs
verify_and_store_checks_without_inputs(tx, idx, content, codes) ==
    Bind(verify_syntax(tx), LAMBDA syntax :
        IF syntax # "Ok" THEN Checked(Res(syntax, 0, <<>>), <<>>)
        ELSE Bind(hash_buf(tx), LAMBDA hash :
            IF index_get(idx, hash) # <<>>
            THEN Checked(Res("AlreadyExists", 0, <<>>), hash)
            ELSE Checked(Res("write", 0, <<>>), hash)))

\* lines 124-136 of verify_and_store: everything before the writes.  "write"
\* stands for falling through to them.
verify_and_store_checks(tx, idx, content, codes) ==
    Bind(verify_syntax(tx), LAMBDA syntax :
        IF syntax # "Ok" THEN Checked(Res(syntax, 0, <<>>), <<>>)
        ELSE Bind(hash_buf(tx), LAMBDA hash :
            IF index_get(idx, hash) # <<>>
            THEN Checked(Res("AlreadyExists", 0, <<>>), hash)
            ELSE IF is_coinbase(tx) THEN Checked(Res("write", 0, <<>>), hash)
            ELSE Bind(verify_input_scripts(tx, idx, content, codes), LAMBDA inputs :
                     IF inputs.result # "Ok" THEN Checked(inputs, hash)
                     ELSE Checked(Res("write", 0, inputs.trace), hash))))

\* a store that any number of callers may mutate at once
StoreShared == TRUE

\* verify_and_store takes the store as &mut Store: a caller runs it only
\* while it holds the one exclusive borrow of the store
StoreBorrowable == owner = 0

\* a thread asks to run verify_and_store on one of the transactions
Request(th) ==
    /\ call[th].pc = "idle"
    /\ calls < MaxCalls
    /\ \E id \in 1..Len(pool) :
          call' = [call EXCEPT ![th] =
                     [Idle EXCEPT !.pc = "waiting", !.tx = id,
                                  !.contended = \E o \in Threads :
                                       /\ o # th
                                       /\ call[o].pc \in {"entered", "write", "set"}
                                       /\ call[o].tx = id]]
    /\ calls' = calls + 1
    /\ UNCHANGED <<index, block_content, pool, owner, vs_by>>
    /\ UNCHANGED <<wireVars, syntaxVars, parseVars, blkVars, accessorVars>>

\* entry into verify_and_store, with the exclusive borrow
Enter(th) ==
    /\ call[th].pc = "waiting"
    /\ StoreBorrowable
    /\ owner' = th
    /\ call' = [call EXCEPT ![th].pc = "entered",
                            ![th].entry_index = index,
                            ![th].entry_content = block_content,
                            ![th].entry_stored = vs_by[call[th].tx] # <<>>]
    /\ UNCHANGED <<index, block_content, pool, vs_by, calls>>
    /\ UNCHANGED <<wireVars, syntaxVars, parseVars, blkVars, accessorVars>>

\* Verify with the content written before the checks are made
Verify_after_write(th) ==
    /\ call[th].pc = "entered"
    /\ block_content' = content_write(block_content, to_raw(pool[call[th].tx])).content
    /\ \E codes \in [1..Len(pool[call[th].tx].txs_in) -> ScriptCodes] :
          \E r \in {verify_and_store_checks(pool[call[th].tx], index, block_content, codes)} :
              call' = [call EXCEPT ![th].pc = IF r.result = "write" THEN "write" ELSE "return",
                                   ![th].result = IF r.result = "write" THEN "none" ELSE r.result,
                                   ![th].code = r.code,
                                   ![th].trace = r.trace,
                                   ![th].answers = Answers(r.trace, codes),
                                   ![th].hash_buf = r.hash_buf]
    /\ UNCHANGED <<index, pool, owner, vs_by, calls>>
    /\ UNCHANGED <<wireVars, syntaxVars, parseVars, blkVars, accessorVars>>

\* lines 124-136: the checks, with one answer of the script verifier per input
Verify(th) ==
    /\ call[th].pc = "entered"
    /\ \E codes \in [1..Len(pool[call[th].tx].txs_in) -> ScriptCodes] :
          \E r \in {verify_and_store_checks(pool[call[th].tx], index, block_content, codes)} :
              call' = [call EXCEPT ![th].pc = IF r.result = "write" THEN "write" ELSE "return",
                                   ![th].result = IF r.result = "write" THEN "none" ELSE r.result,
                                   ![th].code = r.code,
                                   ![th].trace = r.trace,
                                   ![th].answers = Answers(r.trace, codes),
                                   ![th].hash_buf = r.hash_buf]
    /\ UNCHANGED <<index, block_content, pool, owner, vs_by, calls>>
    /\ UNCHANGED <<wireVars, syntaxVars, parseVars, blkVars, accessorVars>>

\* Write that sets the index entry to the place of the bytes to come
Write_index_first(th) ==
    /\ call[th].pc = "write"
    /\ index' = index_set(index, call[th].hash_buf, Len(block_content) + 1)
    /\ call' = [call EXCEPT ![th].pc = "set", ![th].ptr = Len(block_content) + 1]
    /\ UNCHANGED <<block_content, pool, owner, vs_by, calls>>
    /\ UNCHANGED <<wireVars, syntaxVars, parseVars, blkVars, accessorVars>>

\* let ptr = store.block_content.write(self.to_raw())
Write(th) ==
    /\ call[th].pc = "write"
    /\ \E w \in {content_write(block_content, to_raw(pool[call[th].tx]))} :
           /\ block_content' = w.content
           /\ call' = [call EXCEPT ![th].pc = "set", ![th].ptr = w.ptr]
    /\ UNCHANGED <<index, pool, owner, vs_by, calls>>
    /\ UNCHANGED <<wireVars, syntaxVars, parseVars, blkVars, accessorVars>>

\* store.index.set(hash_buf.as_ref(), ptr); Ok(VerifiedAndStored)
Set(th) ==
    /\ call[th].pc = "set"
    /\ index' = index_set(index, call[th].hash_buf, call[th].ptr)
    /\ call' = [call EXCEPT ![th].pc = "return", ![th].result = "VerifiedAndStored"]
    /\ UNCHANGED <<block_content, pool, owner, vs_by, calls>>
    /\ UNCHANGED <<wireVars, syntaxVars, parseVars, blkVars, accessorVars>>

\* the call returns and the borrow ends
Return(th) ==
    /\ call[th].pc = "return"
    /\ owner' = IF owner = th THEN 0 ELSE owner
    /\ vs_by' = IF call[th].result = "VerifiedAndStored"
                THEN [vs_by EXCEPT ![call[th].tx] = Append(@, th)]
                ELSE vs_by
    /\ call' = [call EXCEPT ![th] = Idle]
    /\ UNCHANGED <<index, block_content, pool, calls>>
    /\ UNCHANGED <<wireVars, syntaxVars, parseVars, blkVars, accessorVars>>

\* an empty store, and the callers' transactions; vs_by[id] lists the
\* threads to which a call for transaction id returned VerifiedAndStored
StoreInit ==
    /\ index = <<>>
    /\ block_content = <<>>
    /\ pool = Txs
    /\ owner = 0
    /\ call = [th \in Threads |-> Idle]
    /\ vs_by = [id \in 1..Len(Txs) |-> <<>>]
    /\ calls = 0

StoreNext ==
    \E th \in Threads :
        Request(th) \/ Enter(th) \/ Verify(th) \/ Write(th) \/ Set(th) \/ Return(th)

\* no store in use
StoreIdle ==
    /\ index = <<>>
    /\ block_content = <<>>
    /\ pool = <<>>
    /\ owner = 0
    /\ call = <<>>
    /\ vs_by = <<>>
    /\ calls = 0

-----------------------------------------------------------------------------
(* The decoder and its caller, who calls message on a stream and then on   *)
(* the input that message returned.                                        *)

MaxDecodes == 2

WireInit ==
    /\ given \in Streams
    /\ overflow_checked \in BOOLEAN
    /\ input = StreamBytes(given)
    /\ outs = <<>>
    /\ bare = <<>>

\* message(input); the caller goes on with the remainder it returns
Decode ==
    /\ Len(outs) < MaxDecodes
    /\ IF outs = <<>> THEN TRUE ELSE outs[Len(outs)].kind = "Done" /\ input # <<>>
    /\ \E r \in {message(input, overflow_checked)} :
           /\ outs' = Append(outs, r)
           /\ input' = IF r.kind = "Done" THEN r.rest ELSE input
    /\ UNCHANGED <<given, overflow_checked, bare>>
    /\ UNCHANGED <<storeVars, syntaxVars, parseVars, blkVars, accessorVars>>

\* message on the stream without its prefix
DecodeBare ==
    /\ bare = <<>>
    /\ bare' = <<message(Unprefixed(given), overflow_checked)>>
    /\ UNCHANGED <<given, overflow_checked, input, outs>>
    /\ UNCHANGED <<storeVars, syntaxVars, parseVars, blkVars, accessorVars>>

WireNext == Decode \/ DecodeBare

\* no decoder in use
WireIdle ==
    /\ given = <<>>
    /\ overflow_checked = FALSE
    /\ input = <<>>
    /\ outs = <<>>
    /\ bare = <<>>

-----------------------------------------------------------------------------
(* verify_syntax on a transaction and on the same transaction with its     *)
(* inputs in another order.                                                *)

MaxInputs == 3

\* another hash that is in no index
OtherHash == [i \in 1..32 |-> 187]

\* two outpoints with the same hash and one with the same index as the first
OutPoints == {In(UnknownHash, <<0, 0>>), In(UnknownHash, <<0, 1>>), In(OtherHash, <<0, 0>>)}

InputLists == UNION {[1..n -> OutPoints] : n \in 0..MaxInputs}

\* no output, a small one, one that alone exceeds the size allowed, and one
\* that makes a transaction of one input exactly MAX_TRANSACTION_SIZE bytes
\* long (66 bytes of the transaction are not in the script)
OutputLists == {<<>>, <<Out(1, PkB)>>, <<Out(1, Fill(106, W(MAX_TRANSACTION_SIZE)))>>,
                <<Out(1, Fill(106, WSub(W(MAX_TRANSACTION_SIZE), W(66))))>>}

Orders(n) == {p \in [1..n -> 1..n] : \A a, b \in 1..n : p[a] = p[b] => a = b}

\* the transaction of a caller: serialized, and parsed by Transaction_parse
Tx(ins, os) == Transaction_parse(Ser(ins, os)).val

SyntaxInit ==
    /\ offered \in [ins : InputLists, outs : OutputLists]
    /\ order \in Orders(Len(offered.ins))
    /\ checked = <<>>

Check ==
    /\ checked = <<>>
    /\ checked' = <<verify_syntax(Tx(offered.ins, offered.outs)),
                    verify_syntax(Tx([k \in 1..Len(offered.ins) |-> offered.ins[order[k]]] \o <<>>,
                                     offered.outs))>>
    /\ UNCHANGED <<offered, order>>
    /\ UNCHANGED <<storeVars, wireVars, parseVars, blkVars, accessorVars>>

SyntaxNext == Check

\* no syntax check in use
SyntaxIdle ==
    /\ offered = <<>>
    /\ order = <<>>
    /\ checked = <<>>

-----------------------------------------------------------------------------
(* Transaction::parse on the bytes of a caller, and what the caller then   *)
(* reads off the transaction: is_coinbase and the hash of verify_and_store *)

\* the inputs of the transactions parsed: a coinbase input, an input with
\* a null hash and the index 0, and an input with another hash
ParseOutPoints == {CoinbaseIn, In(NullHash, <<0, 0>>), In(OtherHash, <<0, 0>>)}

ParseInputLists == UNION {[1..n -> ParseOutPoints] : n \in 0..MaxInputs}

\* what follows the transaction in the buffer: nothing, a byte like the
\* transaction's last, or other bytes; "cut" is the transaction without
\* its last byte
Trailings == {"none", "zero", "bytes", "cut"}

TrailingBytes(t) ==
    IF t = "zero" THEN Fill(0, W(1))
    ELSE IF t = "bytes" THEN FromBytes(<<1, 0, 0, 0, 0>>)
    ELSE <<>>

\* the bytes of the buffer
BufferBytes(b) ==
    Bind(Ser(b.ins, b.outs), LAMBDA raw :
        IF b.trailing = "cut" THEN Take(raw, WSub(BLen(raw), W(1)))
        ELSE Cat(raw, TrailingBytes(b.trailing)))

ParseInit ==
    /\ tx_bytes \in [ins : ParseInputLists, outs : OutputLists, trailing : Trailings]
    /\ tx_parsed = <<>>
    /\ tx_seen = <<>>

\* Transaction::parse(&mut buffer)
Parse ==
    /\ tx_parsed = <<>>
    /\ tx_parsed' = <<Transaction_parse(BufferBytes(tx_bytes))>>
    /\ UNCHANGED <<tx_bytes, tx_seen>>
    /\ UNCHANGED <<storeVars, wireVars, syntaxVars, blkVars, accessorVars>>

\* is_coinbase() and the hash_buf of verify_and_store, on the transaction
\* parsed
Inspect ==
    /\ tx_parsed # <<>>
    /\ tx_seen = <<>>
    /\ tx_parsed[1].ok
    /\ tx_seen' = <<[is_coinbase |-> is_coinbase(tx_parsed[1].val),
                     hash_buf |-> hash_buf(tx_parsed[1].val)]>>
    /\ UNCHANGED <<tx_bytes, tx_parsed>>
    /\ UNCHANGED <<storeVars, wireVars, syntaxVars, blkVars, accessorVars>>

ParseNext == Parse \/ Inspect

\* no parser in use
ParseIdle ==
    /\ tx_bytes = <<>>
    /\ tx_parsed = <<>>
    /\ tx_seen = <<>>

-----------------------------------------------------------------------------
(* blk_file.rs: read_block on a reader over a block file.  A read that     *)
(* fails leaves the reader where it was or at the end of the file: how     *)
(* many bytes a failed read_exact has read is not specified, and depends   *)
(* on the reader.                                                          *)

\* 0xD9B4BEF9
MAGIC == <<55732, 48889>>

\* read_exact of n bytes off the reader r
io_read_exact(r, n, at_end) ==
    IF WLeq(n, BLen(r)) THEN [ok |-> TRUE, val |-> Take(r, n), rest |-> Drop(r, n)]
    ELSE [ok |-> FALSE, val |-> <<>>, rest |-> IF at_end THEN <<>> ELSE r]

\* rdr.read_u32::<LittleEndian>()
io_read_u32(r, at_end) ==
    Bind(io_read_exact(r, W(4), at_end), LAMBDA b :
        IF b.ok THEN [ok |-> TRUE, val |-> LE32(Expand(b.val)), rest |-> b.rest]
        ELSE b)

BlockResult(result, block, r) == [result |-> result, block |-> block, rdr |-> r]

\* read_frame leaving the reader before the block
read_frame_before_block(r, at_end) ==
    Bind(io_read_u32(r, at_end), LAMBDA length :
        IF ~length.ok THEN BlockResult("UnexpectedEof", <<>>, length.rest)
        ELSE Bind(io_read_exact(length.rest, length.val, at_end), LAMBDA buffer :
                 IF ~buffer.ok THEN BlockResult("UnexpectedEof", <<>>, buffer.rest)
                 ELSE BlockResult("Some", buffer.val, length.rest)))

\* lines 42-49: the length, the buffer and the block
read_frame(r, at_end) ==
    Bind(io_read_u32(r, at_end), LAMBDA length :
        IF ~length.ok THEN BlockResult("UnexpectedEof", <<>>, length.rest)
        ELSE Bind(io_read_exact(length.rest, length.val, at_end), LAMBDA buffer :
                 IF ~buffer.ok THEN BlockResult("UnexpectedEof", <<>>, buffer.rest)
                 ELSE BlockResult("Some", buffer.val, buffer.rest)))

\* read_block taking a zero word for a wrong tag
read_block_zero_is_bad(r, at_end) ==
    Bind(io_read_u32(r, at_end), LAMBDA magicnr :
        IF ~magicnr.ok THEN BlockResult("None", <<>>, magicnr.rest)
        ELSE IF magicnr.val = MAGIC THEN read_frame(magicnr.rest, at_end)
        ELSE BlockResult("InvalidData", <<>>, magicnr.rest))

\* read_block skipping every word that is no magic
RECURSIVE read_block_skips_bad_tags(_, _)
read_block_skips_bad_tags(r, at_end) ==
    Bind(io_read_u32(r, at_end), LAMBDA magicnr :
        IF ~magicnr.ok THEN BlockResult("None", <<>>, magicnr.rest)
        ELSE IF magicnr.val = MAGIC THEN read_frame(magicnr.rest, at_end)
        ELSE read_block_skips_bad_tags(magicnr.rest, at_end))

\* lines 21-39: the loop over the words before a frame
RECURSIVE read_block(_, _)
read_block(r, at_end) ==
    Bind(io_read_u32(r, at_end), LAMBDA magicnr :
        IF ~magicnr.ok THEN BlockResult("None", <<>>, magicnr.rest)
        ELSE IF magicnr.val = <<0, 0>> THEN read_block(magicnr.rest, at_end)
        ELSE IF magicnr.val = MAGIC THEN read_frame(magicnr.rest, at_end)
        ELSE BlockResult("InvalidData", <<>>, magicnr.rest))

MaxPad == 2
MaxSegments == 2
MaxReads == 3

\* the payloads of the frames: none, three bytes, and a zero word
BlkPayloads == {<<>>, FromBytes(<<1, 2, 3>>), Fill(0, W(4))}

\* a segment of a file: a frame, a zero word, or the tag of the test net
Segments == {[kind |-> "frame", payload |-> q] : q \in BlkPayloads}
                \cup {[kind |-> "zero", payload |-> <<>>], [kind |-> "bad", payload |-> <<>>]}

\* the end of a file: nothing, half a tag, a tag and half a length, or a
\* frame of 5 bytes of which 2 are there
BlkTails == {"none", "short", "nolength", "truncated"}

SegmentBytes(g) ==
    IF g.kind = "frame"
    THEN Cat(FromBytes(U32Bytes(MAGIC) \o U32Bytes(BLen(g.payload))), g.payload)
    ELSE IF g.kind = "zero" THEN Fill(0, W(4))
    ELSE FromBytes(<<250, 191, 181, 218>>)

BlkTailBytes(t) ==
    IF t = "short" THEN FromBytes(<<249, 190>>)
    ELSE IF t = "nolength" THEN FromBytes(U32Bytes(MAGIC) \o <<3, 0>>)
    ELSE IF t = "truncated" THEN FromBytes(U32Bytes(MAGIC) \o <<5, 0, 0, 0, 7, 7>>)
    ELSE <<>>

RECURSIVE SegmentsBytes(_)
SegmentsBytes(segs) ==
    IF segs = <<>> THEN <<>> ELSE Cat(SegmentBytes(segs[1]), SegmentsBytes(Tail(segs)))

\* the file from where a magic is expected, and the file with zero words
\* before it
UnpaddedBytes(f) == Cat(SegmentsBytes(f.segs), BlkTailBytes(f.tail))

BlkBytes(f) == Cat(Fill(0, W(4 * f.pad)), UnpaddedBytes(f))

BlkInit ==
    /\ blk \in [pad : 0..MaxPad,
                 segs : UNION {[1..n -> Segments] : n \in 0..MaxSegments},
                 tail : BlkTails]
    /\ exhausts \in BOOLEAN
    /\ rdr = BlkBytes(blk)
    /\ blocks = <<>>
    /\ unpadded = <<>>

\* read_block(rdr); the caller goes on after a block
ReadBlock ==
    /\ Len(blocks) < MaxReads
    /\ IF blocks = <<>> THEN TRUE ELSE blocks[Len(blocks)].result = "Some"
    /\ \E b \in {read_block(rdr, exhausts)} :
           /\ blocks' = Append(blocks, b)
           /\ rdr' = b.rdr
    /\ UNCHANGED <<blk, exhausts, unpadded>>
    /\ UNCHANGED <<storeVars, wireVars, syntaxVars, parseVars, accessorVars>>

\* read_block on a reader over the file without its padding
ReadUnpadded ==
    /\ unpadded = <<>>
    /\ unpadded' = <<read_block(UnpaddedBytes(blk), exhausts)>>
    /\ UNCHANGED <<blk, exhausts, rdr, blocks>>
    /\ UNCHANGED <<storeVars, wireVars, syntaxVars, parseVars, accessorVars>>

BlkNext == ReadBlock \/ ReadUnpadded

\* no block file in use
BlkIdle ==
    /\ blk = <<>>
    /\ exhausts = FALSE
    /\ rdr = <<>>
    /\ blocks = <<>>
    /\ unpadded = <<>>

-----------------------------------------------------------------------------
(* getdata_message.rs, inv_message.rs: the accessors of the inventory      *)
(* messages                                                                *)

GetdataMessage_len(m) == 8 + (36 * Len(m.inventory))

GetdataMessage_name(m) == "getdata"

\* len() that leaves the count out
InvMessage_len_vectors_only(m) == 36 * Len(m.inventory)

InvMessage_len(m) == 8 + (36 * Len(m.inventory))

InvMessage_name(m) == "inv"

MaxInventory == 4

\* inventory vectors: flags and a hash
InventoryVectors == {[flags |-> 1, hash |-> NullHash], [flags |-> 2, hash |-> OtherHash],
                     [flags |-> 2, hash |-> NullHash]}

AccessorInit ==
    /\ inv_msg \in [type : {"GetdataMessage", "InvMessage"},
                     inventory : UNION {[1..n -> InventoryVectors] : n \in 0..MaxInventory}]
    /\ accessed = <<>>

\* m.len() and m.name()
Access ==
    /\ accessed = <<>>
    /\ accessed' = IF inv_msg.type = "GetdataMessage"
                   THEN <<GetdataMessage_len(inv_msg), GetdataMessage_name(inv_msg)>>
                   ELSE <<InvMessage_len(inv_msg), InvMessage_name(inv_msg)>>
    /\ UNCHANGED inv_msg
    /\ UNCHANGED <<storeVars, wireVars, syntaxVars, parseVars, blkVars>>

AccessorNext == Access

\* no message in use
AccessorIdle ==
    /\ inv_msg = <<>>
    /\ accessed = <<>>

-----------------------------------------------------------------------------
(* The specifications                                                      *)

InitStore == StoreInit /\ WireIdle /\ SyntaxIdle /\ ParseIdle /\ BlkIdle /\ AccessorIdle

SpecStore == InitStore /\ [][StoreNext]_vars

InitWire == WireInit /\ StoreIdle /\ SyntaxIdle /\ ParseIdle /\ BlkIdle /\ AccessorIdle

SpecWire == InitWire /\ [][WireNext]_vars

InitSyntax == SyntaxInit /\ StoreIdle /\ WireIdle /\ ParseIdle /\ BlkIdle /\ AccessorIdle

SpecSyntax == InitSyntax /\ [][SyntaxNext]_vars

InitParse == ParseInit /\ StoreIdle /\ WireIdle /\ SyntaxIdle /\ BlkIdle /\ AccessorIdle

SpecParse == InitParse /\ [][ParseNext]_vars

InitBlk == BlkInit /\ StoreIdle /\ WireIdle /\ SyntaxIdle /\ ParseIdle /\ AccessorIdle

SpecBlk == InitBlk /\ [][BlkNext]_vars

InitAccessor == AccessorInit /\ StoreIdle /\ WireIdle /\ SyntaxIdle /\ ParseIdle /\ BlkIdle

SpecAccessor == InitAccessor /\ [][AccessorNext]_vars

-----------------------------------------------------------------------------
(* Properties of the store                                                 *)

Returning(th) == call[th].pc = "return"

ErrorResults == {"TransactionTooLarge", "NoInputs", "NoOutputs", "DuplicateInputs",
                 "OutputTransactionNotFound", "OutputIndexNotFound", "ScriptError",
                 "UnexpectedEndOfData"}

\* how often the bytes raw were appended to the content
Occurrences(raw) == Cardinality({p \in 1..Len(block_content) : block_content[p] = raw})

\* C1 (store idempotence): a call of verify_and_store(t) that is entered
\* after a call for t has returned VerifiedAndStored returns AlreadyExists,
\* has looked up no input and asked the script verifier nothing, and leaves
\* index and block_content as they were at its entry.
C1_Idempotence ==
    \A th \in Threads :
        (Returning(th) /\ call[th].entry_stored) =>
            /\ call[th].result = "AlreadyExists"
            /\ call[th].trace = <<>>
            /\ index = call[th].entry_index
            /\ block_content = call[th].entry_content

\* a second call for a stored non-coinbase transaction returns, with the
\* store holding other transactions too
C1_Witness ==
    \E th \in Threads :
        /\ Returning(th) /\ call[th].entry_stored
        /\ ~is_coinbase(pool[call[th].tx])
        /\ call[th].result = "AlreadyExists"
        /\ Len(block_content) >= 2

\* C2 (failure atomicity): a call that returns an error leaves index and
\* block_content as they were at its entry, and the store differs from the
\* one at entry only after the syntax check has passed, the hash was not in
\* the index and, unless the transaction is a coinbase, every input was
\* looked up and verified.
C2_FailureAtomicity ==
    \A th \in Threads :
        /\ (Returning(th) /\ call[th].result \in ErrorResults) =>
               /\ index = call[th].entry_index
               /\ block_content = call[th].entry_content
        /\ (/\ call[th].pc \in {"entered", "write", "set", "return"}
            /\ <<index, block_content>> # <<call[th].entry_index, call[th].entry_content>>) =>
               /\ call[th].pc \in {"set", "return"}
               /\ verify_syntax(pool[call[th].tx]) = "Ok"
               /\ call[th].hash_buf \notin DOMAIN call[th].entry_index
               /\ \/ is_coinbase(pool[call[th].tx]) /\ call[th].trace = <<>>
                  \/ /\ ~is_coinbase(pool[call[th].tx])
                     /\ Len(call[th].trace) = 2 * Len(pool[call[th].tx].txs_in)

\* a call fails at its second input, after the first input was verified,
\* on a store that holds transactions
C2_Witness ==
    \E th \in Threads :
        /\ Returning(th)
        /\ call[th].result = "ScriptError"
        /\ Len(call[th].trace) = 4
        /\ Len(block_content) = 2

\* C3 (store invariant): for every entry h -> p of the index, the bytes at p
\* parse as a transaction whose raw bytes hash to h, which passes
\* verify_syntax and is at most MAX_TRANSACTION_SIZE bytes long.
C3_StoreInvariant ==
    \A h \in DOMAIN index :
        \E previous \in {Transaction_parse(content_read(block_content, index[h]))} :
            /\ previous.ok
            /\ double_sha256(to_raw(previous.val)) = h
            /\ verify_syntax(previous.val) = "Ok"
            /\ WLeq(BLen(to_raw(previous.val)), W(MAX_TRANSACTION_SIZE))

\* the index holds a transaction of exactly MAX_TRANSACTION_SIZE bytes and
\* one that spends a stored output
C3_Witness ==
    /\ \E h \in DOMAIN index :
           BLen(content_read(block_content, index[h])) = W(MAX_TRANSACTION_SIZE)
    /\ \E h \in DOMAIN index :
           ~is_coinbase(Transaction_parse(content_read(block_content, index[h])).val)

\* C4 (at-most-once insertion): for every transaction, at most one call
\* returns VerifiedAndStored and its bytes are appended at most once; a call
\* that returns VerifiedAndStored or AlreadyExists finds the bytes appended
\* exactly once, and AlreadyExists is returned only after another call
\* returned VerifiedAndStored.
C4_AtMostOnce ==
    \A id \in 1..Len(pool) :
        /\ Len(vs_by[id])
             + Cardinality({th \in Threads : /\ Returning(th) /\ call[th].tx = id
                                             /\ call[th].result = "VerifiedAndStored"}) <= 1
        /\ Occurrences(to_raw(pool[id])) <= 1
        /\ \A th \in Threads :
              (Returning(th) /\ call[th].tx = id) =>
                  /\ call[th].result = "VerifiedAndStored" =>
                         /\ Occurrences(to_raw(pool[id])) = 1
                         /\ vs_by[id] = <<>>
                  /\ call[th].result = "AlreadyExists" =>
                         /\ Occurrences(to_raw(pool[id])) = 1
                         /\ Len(vs_by[id]) = 1

\* a call made while another thread was inside verify_and_store for the
\* same transaction returns AlreadyExists, the other having stored it
C4_Witness ==
    \E th \in Threads :
        /\ Returning(th)
        /\ call[th].contended
        /\ call[th].result = "AlreadyExists"
        /\ vs_by[call[th].tx] # <<>>
        /\ vs_by[call[th].tx][1] # th
        /\ calls = 2

\* input i of the call's transaction names a transaction that was in the
\* index when the call was entered
Resolves(c, i) == pool[c.tx].txs_in[i].prev_tx_out \in DOMAIN c.entry_index

\* the outputs of the transaction that input i names
ReferencedOutputs(c, i) ==
    Transaction_parse(content_read(c.entry_content,
                                   c.entry_index[pool[c.tx].txs_in[i].prev_tx_out])).val.txs_out

\* input i names an output that the transaction it names has
InRange(c, i) ==
    /\ Resolves(c, i)
    /\ WLess(pool[c.tx].txs_in[i].prev_tx_out_idx, W(Len(ReferencedOutputs(c, i))))

\* the script verifier was asked about input i and answered 1
VerifiedAs1(c, i) ==
    \E k \in 1..Len(c.answers) : VerifierCalls(c.trace)[k][2] = i /\ c.answers[k] = 1

\* C18 (success characterization): verify_and_store returns
\* VerifiedAndStored if and only if the transaction passes verify_syntax,
\* its hash was not in the index at entry, and it is a coinbase or every
\* input names an output of a stored transaction for which the script
\* verifier answered 1; for a coinbase nothing is looked up or verified; and
\* after VerifiedAndStored the index maps the hash to a pointer under which
\* the raw bytes are read back.
C18_SuccessCharacterization ==
    \A th \in Threads :
        Returning(th) =>
            /\ call[th].result = "VerifiedAndStored" <=>
                   /\ verify_syntax(pool[call[th].tx]) = "Ok"
                   /\ hash_buf(pool[call[th].tx]) \notin DOMAIN call[th].entry_index
                   /\ \/ is_coinbase(pool[call[th].tx])
                      \/ \A i \in 1..Len(pool[call[th].tx].txs_in) :
                             InRange(call[th], i) /\ VerifiedAs1(call[th], i)
            /\ is_coinbase(pool[call[th].tx]) => call[th].trace = <<>>
            /\ call[th].result = "VerifiedAndStored" =>
                   /\ hash_buf(pool[call[th].tx]) \in DOMAIN index
                   /\ content_read(block_content, index[hash_buf(pool[call[th].tx])])
                          = pool[call[th].tx].raw

\* a transaction with two inputs is stored after both were verified
C18_Witness ==
    \E th \in Threads :
        /\ Returning(th)
        /\ call[th].result = "VerifiedAndStored"
        /\ Len(pool[call[th].tx].txs_in) = 2
        /\ call[th].answers = <<1, 1>>
        /\ Len(block_content) = 3

\* verify_input_scripts has run in the call c
InputsVerified(c) ==
    /\ c.pc \in {"write", "set", "return"}
    /\ verify_syntax(pool[c.tx]) = "Ok"
    /\ c.hash_buf \notin DOMAIN c.entry_index
    /\ ~is_coinbase(pool[c.tx])

\* the last input that the call c has looked up
LastExamined(c) == (Len(c.trace) + 1) \div 2

\* C20 (input verification order): verify_input_scripts looks the inputs up
\* in index order and asks the verifier about each with the raw bytes of the
\* spending transaction, the pk_script of the output named, the input's
\* position and the flags 0; it returns the error of the first input that
\* fails, OutputTransactionNotFound if the hash is not in the index, else
\* OutputIndexNotFound if the transaction named has no such output, else
\* ScriptError(code) if the verifier answered a code other than 1; and no
\* input after that one is examined.
C20_InputOrder ==
    \A th \in Threads :
        InputsVerified(call[th]) =>
            /\ LastExamined(call[th]) \in 1..Len(pool[call[th].tx].txs_in)
            /\ \A i \in 1..LastExamined(call[th]) :
                   /\ call[th].trace[2 * i - 1] = <<"get", i>>
                   /\ 2 * i <= Len(call[th].trace) =>
                          /\ InRange(call[th], i)
                          /\ call[th].trace[2 * i] =
                                 <<"verify", i, pool[call[th].tx].raw,
                                   ReferencedOutputs(call[th], i)
                                       [pool[call[th].tx].txs_in[i].prev_tx_out_idx[2] + 1].pk_script,
                                   0>>
                   /\ i < LastExamined(call[th]) =>
                          2 * i <= Len(call[th].trace) /\ call[th].answers[i] = 1
            /\ Len(call[th].answers) = Len(call[th].trace) \div 2
            /\ IF ~Resolves(call[th], LastExamined(call[th]))
               THEN /\ call[th].result = "OutputTransactionNotFound"
                    /\ Len(call[th].trace) = 2 * LastExamined(call[th]) - 1
               ELSE IF ~InRange(call[th], LastExamined(call[th]))
               THEN /\ call[th].result = "OutputIndexNotFound"
                    /\ Len(call[th].trace) = 2 * LastExamined(call[th]) - 1
               ELSE /\ Len(call[th].trace) = 2 * LastExamined(call[th])
                    /\ IF call[th].answers[LastExamined(call[th])] # 1
                       THEN /\ call[th].result = "ScriptError"
                            /\ call[th].code = call[th].answers[LastExamined(call[th])]
                       ELSE /\ LastExamined(call[th]) = Len(pool[call[th].tx].txs_in)
                            /\ call[th].result \in {"none", "VerifiedAndStored"}

\* the verifier rejects the first of two inputs, and the second, which
\* names a transaction that is not stored, is not looked up
C20_Witness ==
    \E th \in Threads :
        /\ InputsVerified(call[th])
        /\ Len(pool[call[th].tx].txs_in) = 2
        /\ ~Resolves(call[th], 2)
        /\ call[th].result = "ScriptError"
        /\ call[th].code = 0
        /\ Len(call[th].trace) = 2

\* C21 (append-only store): in every step, each entry of the index stays,
\* with the pointer it has; index.set is called only for a hash that is
\* not in the index; and the bytes under every pointer of block_content
\* stay as they are.
C21_AppendOnly ==
    [][/\ \A h \in DOMAIN index : h \in DOMAIN index' /\ index'[h] = index[h]
       /\ \A th \in Threads :
              call[th].pc = "set" => call[th].hash_buf \notin DOMAIN index
       /\ Len(block_content') >= Len(block_content)
       /\ \A ptr \in 1..Len(block_content) :
              content_read(block_content', ptr) = content_read(block_content, ptr)]_vars

\* a third transaction is about to be set in an index of two entries, its
\* bytes written behind those of the two
C21_Witness ==
    \E th \in Threads :
        /\ call[th].pc = "set"
        /\ Cardinality(DOMAIN index) = 2
        /\ call[th].ptr = 3
        /\ Len(block_content) = 3

\* C22 (publication order): at every point, also inside verify_and_store,
\* each pointer of the index is one of block_content under which the whole
\* bytes of a transaction with that hash are read; and a call has appended
\* its bytes before it sets its index entry.
C22_PublicationOrder ==
    /\ \A h \in DOMAIN index :
           /\ index[h] \in 1..Len(block_content)
           /\ \E id \in 1..Len(pool) :
                  /\ content_read(block_content, index[h]) = pool[id].raw
                  /\ hash_buf(pool[id]) = h
    /\ \A th \in Threads :
           /\ call[th].pc = "write" => call[th].hash_buf \notin DOMAIN index
           /\ call[th].pc = "set" =>
                  /\ call[th].hash_buf \notin DOMAIN index
                  /\ call[th].ptr \in 1..Len(block_content)
                  /\ content_read(block_content, call[th].ptr) = pool[call[th].tx].raw

\* between the append and the insert of a call for a transaction that
\* spends a stored output: the index holds the one entry of before
C22_Witness ==
    \E th \in Threads :
        /\ call[th].pc = "set"
        /\ ~is_coinbase(pool[call[th].tx])
        /\ Cardinality(DOMAIN index) = 1
        /\ Len(block_content) = 2

\* the transaction stored under the hash h
Stored(h) == Transaction_parse(content_read(block_content, index[h]))

\* C25 (dependency closure): every stored transaction parses, and for each
\* input of a stored transaction that is no coinbase the transaction the
\* input names is stored too, was written earlier, and has the output
\* named; no call of verify_and_store returns UnexpectedEndOfData.
C25_DependencyClosure ==
    /\ \A h \in DOMAIN index :
           /\ Stored(h).ok
           /\ ~is_coinbase(Stored(h).val) =>
                  \A i \in 1..Len(Stored(h).val.txs_in) :
                      /\ Stored(h).val.txs_in[i].prev_tx_out \in DOMAIN index
                      /\ index[Stored(h).val.txs_in[i].prev_tx_out] < index[h]
                      /\ WLess(Stored(h).val.txs_in[i].prev_tx_out_idx,
                               W(Len(Stored(Stored(h).val.txs_in[i].prev_tx_out).val.txs_out)))
    /\ \A th \in Threads : call[th].result # "UnexpectedEndOfData"

\* a stored transaction names the second output of one stored transaction
\* and the first output of another
C25_Witness ==
    \E h \in DOMAIN index :
        /\ Len(Stored(h).val.txs_in) = 2
        /\ Stored(h).val.txs_in[1].prev_tx_out_idx = <<0, 1>>
        /\ Stored(h).val.txs_in[1].prev_tx_out # Stored(h).val.txs_in[2].prev_tx_out
        /\ index[h] = 3

-----------------------------------------------------------------------------
(* Properties of the decoder                                               *)

\* the names of the match in message
Registered ==
    {Str_version, Str_verack, Str_sendheaders, Str_getdata, Str_getblocks, Str_getheaders,
     Str_sendcmpct, Str_feefilter, Str_ping, Str_pong, Str_addr, Str_headers, Str_inv,
     Str_bcr_pcr, Str_bcr_pc}

\* a command field without its trailing NULs
TrimTrailing(cmd) ==
    SubSeq(cmd, 1, CHOOSE n \in 0..Len(cmd) :
                       /\ n = 0 \/ cmd[n] # 0
                       /\ \A k \in (n + 1)..Len(cmd) : cmd[k] = 0)

\* the stream starts, after its prefix, with the whole frame
FrameComplete == given.chop = 0 /\ given.tail # "cut"

\* the first call of message on the stream has returned
Decoded == Len(outs) >= 1

\* a magic tag of the stream begins inside the prefix
Straddles ==
    \E head \in {Expand(Take(StreamBytes(given), W(Len(given.prefix) + 3)))} :
        \E k \in 1..Len(given.prefix) :
            /\ k + 3 <= Len(head)
            /\ SubSeq(head, k, k + 3) \in {MagicMain, MagicTest}

\* C5 (no panic on bad input): every call of message returns done,
\* incomplete or error; none panics, whatever the payload length in the
\* header.
C5_NoPanic ==
    /\ \A k \in 1..Len(outs) : outs[k].kind \in {"Done", "Incomplete", "Error"}
    /\ \A k \in 1..Len(bare) : bare[k].kind \in {"Done", "Incomplete", "Error"}

\* C6 (stream order): when message succeeds on a complete valid frame
\* followed by further bytes, the remainder it returns is the bytes after
\* the frame's payload, and the next call on the remainder yields the frame
\* that follows.
C6_StreamOrder ==
    (/\ Decoded /\ FrameComplete /\ given.frame.good
     /\ given.tail \in {"frame", "bytes"}
     /\ outs[1].kind = "Done") =>
        /\ outs[1].rest = After(given.tail)
        /\ (given.tail = "frame" /\ Len(outs) = 2) =>
               /\ outs[2].kind = "Done"
               /\ outs[2].val.type = "Verack"
               /\ outs[2].rest = <<>>

\* C7 (checksum rejection): for a complete frame with a wrong checksum,
\* message returns the error with the custom code payload_len + 20, whatever
\* the command; with the right checksum it returns no such error.
C7_ChecksumRejection ==
    (Decoded /\ FrameComplete) =>
        IF given.frame.good
        THEN ~(outs[1].kind = "Error" /\ outs[1].err = "Custom")
        ELSE /\ outs[1].kind = "Error"
             /\ outs[1].err = "Custom"
             /\ outs[1].code = WAdd(BLen(given.frame.payload), W(20))

C9_UnknownOpaque ==
    (/\ Decoded /\ FrameComplete /\ given.frame.good
     /\ TrimTrailing(given.frame.cmd) \notin Registered) =>
        /\ outs[1].kind = "Done"
        /\ outs[1].val.type = "Unparsed"
        /\ outs[1].val.body = given.frame.payload
        /\ outs[1].rest = After(given.tail)
        /\ (\A k \in 1..12 : given.frame.cmd[k] < 128) =>
               outs[1].val.message_type = TrimTrailing(given.frame.cmd)

\* C23 (command name trimming): for a complete frame with the right
\* checksum and an ASCII command field, the decoded command is the field
\* without its trailing NULs, NULs at its start and inside it kept: message
\* returns what the match on that name returns, and an Unparsed message
\* carries that name.
C23_CommandTrimming ==
    (/\ Decoded /\ FrameComplete /\ given.frame.good
     /\ \A k \in 1..12 : given.frame.cmd[k] < 128) =>
        /\ outs[1] = dispatch(After(given.tail),
                              [message_type |-> TrimTrailing(given.frame.cmd),
                               body |-> given.frame.payload])
        /\ (outs[1].kind = "Done" /\ outs[1].val.type = "Unparsed") =>
               outs[1].val.message_type = TrimTrailing(given.frame.cmd)

\* the bytes of the stream behind its first magic tag, if it has one
BehindMagic ==
    Bind(magic(StreamBytes(given)), LAMBDA m : IF m.kind = "Done" THEN <<m.rest>> ELSE <<>>)

\* the stream holds a complete frame: a magic tag, and behind it the 20
\* bytes of the header's rest and payload_len bytes of payload
HoldsFrame ==
    Bind(BehindMagic, LAMBDA behind :
        /\ behind # <<>>
        /\ WLeq(W(20), BLen(behind[1]))
        /\ WLeq(WAdd(W(20), LE32(Slice(behind[1], 12, 4))), BLen(behind[1])))

\* C24 (incomplete means more bytes are needed): message returns incomplete
\* exactly when its input holds no complete frame; for an input that holds
\* one it returns done or an error, whatever the command and the payload.
C24_IncompleteNeedsBytes ==
    Decoded =>
        IF HoldsFrame THEN outs[1].kind \in {"Done", "Error"}
        ELSE outs[1].kind = "Incomplete"

\* the frame offered is a whole version frame with the right checksum and
\* a payload that holds every field of its version
VersionFrame ==
    /\ FrameComplete /\ given.frame.good
    /\ given.frame.cmd = Pad12(Str_version)
    /\ WLeq(W(88), BLen(given.frame.payload))
    /\ WLeq(W(IF I32(LE32(Slice(given.frame.payload, 0, 4))) >= 70001 THEN 89 ELSE 88),
            BLen(given.frame.payload))

\* the time-less NetAddr in the 26 bytes at offset from of the payload
NetAddrAt(from) ==
    [time |-> <<>>,
     services |-> Slice(given.frame.payload, from, 8),
     ip |-> [k \in 1..8 |-> 256 * ByteAt(given.frame.payload, W(from + 6 + 2 * k))
                                + ByteAt(given.frame.payload, W(from + 7 + 2 * k))],
     port |-> 256 * ByteAt(given.frame.payload, W(from + 24))
                  + ByteAt(given.frame.payload, W(from + 25))]

\* C16 (version decoding): a version payload is decoded as i32 version, u64
\* services, i64 timestamp, two time-less NetAddrs, u64 nonce, a user agent
\* behind its compact size and i32 start height; the relay byte is consumed
\* only for a version of 70001 or more, and relay is true iff that byte is
\* 01.  The user agents of the model are three bytes long.
C16_VersionDecoding ==
    (Decoded /\ VersionFrame) =>
        /\ outs[1].kind = "Done"
        /\ outs[1].val.type = "Version"
        /\ outs[1].val.version = I32(LE32(Slice(given.frame.payload, 0, 4)))
        /\ outs[1].val.services = Slice(given.frame.payload, 4, 8)
        /\ outs[1].val.timestamp = Slice(given.frame.payload, 12, 8)
        /\ outs[1].val.addr_recv = NetAddrAt(20)
        /\ outs[1].val.addr_send = NetAddrAt(46)
        /\ outs[1].val.nonce = Slice(given.frame.payload, 72, 8)
        /\ ByteAt(given.frame.payload, W(80)) = 3
        /\ Len(outs[1].val.user_agent) = 3
        /\ outs[1].val.user_agent[1] = ByteAt(given.frame.payload, W(81))
        /\ outs[1].val.start_height = I32(LE32(Slice(given.frame.payload, 84, 4)))
        /\ IF outs[1].val.version >= 70001
           THEN /\ outs[1].val.relay = (ByteAt(given.frame.payload, W(88)) = 1)
                /\ outs[1].rest = Drop(given.frame.payload, W(89))
           ELSE /\ outs[1].val.relay = FALSE
                /\ outs[1].rest = Drop(given.frame.payload, W(88))

\* a version of 70000 followed by a byte in the payload: the byte is not
\* consumed, and relay is false
C16_Witness ==
    /\ Decoded /\ VersionFrame
    /\ outs[1].kind = "Done"
    /\ outs[1].val.version = 70000
    /\ outs[1].val.relay = FALSE
    /\ outs[1].val.addr_recv.port = 8333
    /\ outs[1].rest = FromBytes(<<7>>)

-----------------------------------------------------------------------------
(* Properties of the syntax check                                          *)

\* two inputs of the transaction offered name the same output
HasDuplicate ==
    \E a, b \in 1..Len(offered.ins) :
        /\ a < b
        /\ offered.ins[a].hash = offered.ins[b].hash
        /\ offered.ins[a].idx = offered.ins[b].idx

\* C10 as stated (duplicate-input detection): a transaction with two inputs
\* that name the same output gets DuplicateInputs, in every order of its
\* inputs.
C10_DuplicateInputs_AsStated ==
    (checked # <<>> /\ HasDuplicate) =>
        /\ checked[1] = "DuplicateInputs"
        /\ checked[2] = "DuplicateInputs"

\* C10 (duplicate-input detection), amended: a transaction of at most
\* MAX_TRANSACTION_SIZE bytes with at least one output and two inputs that
\* name the same output gets DuplicateInputs, and verify_syntax returns the
\* same for every order of a transaction's inputs.
C10_DuplicateInputs ==
    checked # <<>> =>
        /\ checked[2] = checked[1]
        /\ (/\ HasDuplicate
            /\ offered.outs # <<>>
            /\ WLeq(BLen(Ser(offered.ins, offered.outs)), W(MAX_TRANSACTION_SIZE))) =>
               checked[1] = "DuplicateInputs"

\* three inputs, the first and the last naming the same output, checked in
\* an order that is not the given one
C10_Witness ==
    /\ checked # <<>>
    /\ Len(offered.ins) = 3
    /\ offered.ins[1] = offered.ins[3]
    /\ offered.ins[1] # offered.ins[2]
    /\ offered.outs # <<>>
    /\ order # <<1, 2, 3>>
    /\ checked = <<"DuplicateInputs", "DuplicateInputs">>

\* the first rule that the transaction offered violates, in the order
\* TransactionTooLarge, NoInputs, NoOutputs, DuplicateInputs
FirstViolated ==
    IF WLess(W(1000000), BLen(Ser(offered.ins, offered.outs))) THEN "TransactionTooLarge"
    ELSE IF Len(offered.ins) = 0 THEN "NoInputs"
    ELSE IF Len(offered.outs) = 0 THEN "NoOutputs"
    ELSE IF HasDuplicate THEN "DuplicateInputs"
    ELSE "Ok"

\* C19 (verify_syntax check order): verify_syntax returns the first violated
\* rule in the order TransactionTooLarge (more than 1,000,000 raw bytes),
\* NoInputs, NoOutputs, DuplicateInputs, and Ok exactly when none is
\* violated; inputs that share only the hash or only the index are no
\* duplicates.
C19_CheckOrder ==
    checked # <<>> =>
        /\ checked[1] = FirstViolated
        /\ (/\ \A a, b \in 1..Len(offered.ins) :
                    a < b => \/ offered.ins[a].hash # offered.ins[b].hash
                             \/ offered.ins[a].idx # offered.ins[b].idx
            /\ checked[1] # "Ok") =>
                checked[1] \in {"TransactionTooLarge", "NoInputs", "NoOutputs"}

\* three inputs, two with the same hash and two with the same index, none
\* with both: Ok
C19_Witness ==
    /\ checked # <<>>
    /\ Len(offered.ins) = 3
    /\ \E a, b \in 1..3 : a # b /\ offered.ins[a].hash = offered.ins[b].hash
    /\ \E a, b \in 1..3 : a # b /\ offered.ins[a].idx = offered.ins[b].idx
    /\ ~HasDuplicate
    /\ checked[1] = "Ok"

-----------------------------------------------------------------------------
(* Properties of the parser                                                *)

\* the transaction of the buffer was parsed, and the caller has read off it
Inspected == tx_seen # <<>>

\* C11 (coinbase classification): is_coinbase is true if and only if the
\* transaction has exactly one input and that input's previous-output hash
\* is 32 zero bytes, whatever the previous-output index; with two or more
\* inputs it is false even if one of them has a null hash.
C11_CoinbaseClassification ==
    Inspected =>
        (tx_seen[1].is_coinbase <=>
            /\ Len(tx_bytes.ins) = 1
            /\ tx_bytes.ins[1].hash = [i \in 1..32 |-> 0])

\* a transaction whose only input has a null hash and the index 0 is found
\* to be a coinbase
C11_Witness ==
    /\ Inspected
    /\ tx_bytes.ins = <<In(NullHash, <<0, 0>>)>>
    /\ tx_seen[1].is_coinbase

\* C12 (parse round-trip): Transaction::parse on a buffer that starts with
\* the bytes b of a well-formed transaction yields a transaction whose raw
\* bytes are b, leaves the cursor just past b, and the hash of
\* verify_and_store is the double-SHA-256 of b.
C12_ParseRoundTrip ==
    (tx_parsed # <<>> /\ tx_bytes.trailing # "cut") =>
        /\ tx_parsed[1].ok
        /\ to_raw(tx_parsed[1].val) = Ser(tx_bytes.ins, tx_bytes.outs)
        /\ tx_parsed[1].rest = TrailingBytes(tx_bytes.trailing)
        /\ Inspected =>
               tx_seen[1].hash_buf = double_sha256(Ser(tx_bytes.ins, tx_bytes.outs))

\* a transaction of two inputs and an output, followed in the buffer by a
\* zero byte like its last, is parsed and hashed
C12_Witness ==
    /\ Inspected
    /\ Len(tx_bytes.ins) = 2
    /\ tx_bytes.outs = <<Out(1, PkB)>>
    /\ tx_bytes.trailing = "zero"
    /\ tx_parsed[1].rest = Fill(0, W(1))

-----------------------------------------------------------------------------
(* Properties of the block file                                            *)

\* the frames of the file, in the order of the file
BlkFrames == SelectSeq(blk.segs, LAMBDA g : g.kind = "frame")

\* the file is made of whole frames and zero words only
WellFormedFile ==
    /\ blk.tail = "none"
    /\ \A i \in 1..Len(blk.segs) : blk.segs[i].kind \in {"frame", "zero"}

\* the place in the file of its n-th frame, 0 for n = 0
FrameAt(n) ==
    CHOOSE i \in 0..Len(blk.segs) :
        /\ Cardinality({j \in 1..i : blk.segs[j].kind = "frame"}) = n
        /\ i = 0 \/ blk.segs[i].kind = "frame"

\* the k-th call finds, where it expects a magic, the word of the test net
BadTagAt(k) ==
    /\ k - 1 <= Len(BlkFrames)
    /\ \E j \in (FrameAt(k - 1) + 1)..Len(blk.segs) :
           /\ blk.segs[j].kind = "bad"
           /\ \A m \in (FrameAt(k - 1) + 1)..(j - 1) : blk.segs[m].kind = "zero"

\* C13 (zero padding): read_block on the file with zero words before it
\* returns what read_block returns on the file without them and leaves the
\* reader at the same place; a file of zero words only gives neither an
\* error nor a block.
C13_ZeroPadding ==
    /\ (blocks # <<>> /\ unpadded # <<>>) => blocks[1] = unpadded[1]
    /\ (blocks # <<>> /\ blk.tail = "none"
            /\ \A i \in 1..Len(blk.segs) : blk.segs[i].kind = "zero") =>
           blocks[1].result = "None"

\* a frame behind two zero words is read, as it is without them
C13_Witness ==
    /\ blocks # <<>> /\ unpadded # <<>>
    /\ blk.pad = 2
    /\ blk.segs # <<>>
    /\ blk.segs[1] = [kind |-> "frame", payload |-> FromBytes(<<1, 2, 3>>)]
    /\ blocks[1].result = "Some"
    /\ blocks[1].block = FromBytes(<<1, 2, 3>>)
    /\ unpadded[1] = blocks[1]

\* C14 (iteration): on a file of n whole frames, with or without zero words
\* between them, the calls of read_block return the n payloads in the order
\* of the file, and then None; none returns an error.
C14_Iteration ==
    WellFormedFile =>
        \A k \in 1..Len(blocks) :
            IF k <= Len(BlkFrames)
            THEN /\ blocks[k].result = "Some"
                 /\ blocks[k].block = BlkFrames[k].payload
            ELSE /\ blocks[k].result = "None"
                 /\ blocks[k].block = <<>>

\* two frames behind a zero word are read, and then the end of the file
C14_Witness ==
    /\ WellFormedFile
    /\ blk.pad = 1
    /\ Len(BlkFrames) = 2
    /\ BlkFrames[1].payload = FromBytes(<<1, 2, 3>>)
    /\ Len(blocks) = 3
    /\ blocks[2].result = "Some"
    /\ blocks[3].result = "None"

\* C15 (bad tag): a call of read_block that finds, where a magic is
\* expected, a word that is neither zero nor the magic returns InvalidData,
\* whatever follows the word.
C15_BadTag ==
    \A k \in 1..Len(blocks) :
        BadTagAt(k) =>
            /\ blocks[k].result = "InvalidData"
            /\ blocks[k].block = <<>>

\* a wrong tag behind a zero word and before a frame
C15_Witness ==
    /\ Len(blocks) = 1
    /\ blk.pad = 1
    /\ Len(blk.segs) = 2
    /\ blk.segs[1].kind = "bad"
    /\ blk.segs[2].kind = "frame"
    /\ blocks[1].result = "InvalidData"

-----------------------------------------------------------------------------
(* Properties of the inventory messages                                    *)

\* C17 (inventory accessors): for every GetdataMessage and InvMessage,
\* len() is 8 + 36 * (number of inventory vectors), so the empty message
\* has len() 8, and name() is "getdata" respectively "inv" whatever the
\* message holds.
C17_InventoryAccessors ==
    accessed # <<>> =>
        /\ accessed[1] = 8 + 36 * Len(inv_msg.inventory)
        /\ inv_msg.inventory = <<>> => accessed[1] = 8
        /\ inv_msg.type = "GetdataMessage" => accessed[2] = "getdata"
        /\ inv_msg.type = "InvMessage" => accessed[2] = "inv"

\* the accessors of an InvMessage of three vectors
C17_Witness ==
    /\ accessed = <<116, "inv">>
    /\ inv_msg.type = "InvMessage"
    /\ Len(inv_msg.inventory) = 3

=============================================================================
